---------------------------- MODULE Spec2Model ----------------------------
(***************************************************************************)
(* A model of the talang execution pipeline (github.com/alkazarix/talang): *)
(* the environment chain of package valuer, the tree-walking evaluator of  *)
(* package interpreter, and the bytecode compiler with its stack VM.       *)
(*                                                                         *)
(* Six specifications share the module:                                    *)
(*   SpecEnv   Define / Get / Assign on a tree of environments             *)
(*   SpecEval  an Interpreter evaluating programs one after the other      *)
(*   SpecVM    Compiler.Compile followed by the fetch loop of VM.Run       *)
(*   SpecLex   Lexer.Lexeme, one NextToken call at a time                  *)
(*   SpecParse Lexer.Lexeme followed by Parser.Parse on a source text      *)
(*   SpecRepl  repl.Start reading lines into one Interpreter               *)
(* A specification leaves the variables of the others at their idle value. *)
(***************************************************************************)
EXTENDS Integers, Sequences, FiniteSets, TLC

VARIABLES
    eHeap,      \* SpecEnv: the environments allocated so far, by address
    eLast,      \* SpecEnv: the last Get / Assign call, its arguments and result
    interp,     \* SpecEval: the Interpreter (current env, heap of environments, ...)
    evLast,     \* SpecEval: the last Evaluate call: program, value, error
    vm,         \* SpecVM: the VM (sp, stack, globals, frames, framesIndex)
    vmStatus,   \* SpecVM: "idle", "rejected", "running", "halted", "error", "panic"
    vmProg,     \* SpecVM: the program that was compiled
    lx,         \* SpecLex: the Lexer, the tokens Lexeme has collected, its position
    px,         \* SpecParse: the source text, and the outcome of Parse once it ran
    repl        \* SpecRepl: the lines read, what was written to out, the position

vars == <<eHeap, eLast, interp, evLast, vm, vmStatus, vmProg, lx, px, repl>>
envVars == <<eHeap, eLast>>
evalVars == <<interp, evLast>>
vmVars == <<vm, vmStatus, vmProg>>
frontVars == <<lx, px, repl>>

Idle == <<>>

-----------------------------------------------------------------------------
(* Values (package valuer).  A Number holds an integer here: the model's   *)
(* programs keep every quotient exact.                                     *)

GoNil == [t |-> "GoNil"]            \* Go's nil interface value / nil pointer
NilV == [t |-> "Nil"]
True == [t |-> "Boolean", v |-> TRUE]
False == [t |-> "Boolean", v |-> FALSE]
Number(n) == [t |-> "Number", v |-> n]
String(s) == [t |-> "String", v |-> s]
Return(v) == [t |-> "Return", v |-> v]

toBoolanValue(input) == IF input THEN True ELSE False

-----------------------------------------------------------------------------
(* Environment (src/valuer/environment.go).  An environment is a record    *)
(* [Values, Enclosing]; a heap is the sequence of the environments         *)
(* allocated so far and an *Environment is an index into it, 0 for nil.    *)

\* strconv.ParseFloat on the lexeme of a Number token: the decimal numerals
\* up to MaxLiteral are the ones the programs of the model hold.
MaxLiteral == 99
Numerals == [s \in {ToString(n) : n \in 0..MaxLiteral} |->
                CHOOSE n \in 0..MaxLiteral : ToString(n) = s]
ParseFloat(s) ==
    IF s \in DOMAIN Numerals THEN [v |-> Numerals[s], err |-> ""]
    ELSE [v |-> 0, err |-> "invalid syntax"]

NoEnv == 0
EmptyValues == [k \in {} |-> GoNil]

NewEnvironment == [Values |-> EmptyValues, Enclosing |-> NoEnv]

\* NewEnclosing(env): the heap with one more environment, enclosed by env.
NewEnclosing(heap, env) ==
    Append(heap, [Values |-> EmptyValues, Enclosing |-> env])

Define(heap, env, key, v) ==
    [heap EXCEPT ![env].Values =
        [k \in DOMAIN heap[env].Values \cup {key} |->
            IF k = key THEN v ELSE heap[env].Values[k]]]

RECURSIVE Get(_, _, _)
Get(heap, env, key) ==
    IF key \in DOMAIN heap[env].Values
    THEN [v |-> heap[env].Values[key], ok |-> TRUE]
    ELSE IF heap[env].Enclosing /= NoEnv
         THEN Get(heap, heap[env].Enclosing, key)
         ELSE [v |-> GoNil, ok |-> FALSE]

\* A plausible slip: Assign writes the binding into the environment it is
\* called on, as Define does, when that environment does not define the key.
RECURSIVE AssignLocal(_, _, _, _)
AssignLocal(heap, env, key, v) ==
    IF key \in DOMAIN heap[env].Values \/ heap[env].Enclosing /= NoEnv
    THEN [heap |-> Define(heap, env, key, v), ok |-> TRUE]
    ELSE [heap |-> heap, ok |-> FALSE]

\* An Assign that, finding the key nowhere, binds it in the outermost
\* environment before it reports the failure.
RECURSIVE AssignDefining(_, _, _, _)
AssignDefining(heap, env, key, v) ==
    IF key \in DOMAIN heap[env].Values
    THEN [heap |-> [heap EXCEPT ![env].Values[key] = v], ok |-> TRUE]
    ELSE IF heap[env].Enclosing /= NoEnv
         THEN AssignDefining(heap, heap[env].Enclosing, key, v)
         ELSE [heap |-> Define(heap, env, key, v), ok |-> FALSE]

RECURSIVE Assign(_, _, _, _)
Assign(heap, env, key, v) ==
    IF key \in DOMAIN heap[env].Values
    THEN [heap |-> [heap EXCEPT ![env].Values[key] = v], ok |-> TRUE]
    ELSE IF heap[env].Enclosing /= NoEnv
         THEN Assign(heap, heap[env].Enclosing, key, v)
         ELSE [heap |-> heap, ok |-> FALSE]

-----------------------------------------------------------------------------
(* The AST (package ast).  A node is a record whose field k names its Go   *)
(* type; NoNode is a nil ast.Expr / ast.Stmt.  A token is kept as its      *)
(* token.Type; a literal keeps the lexeme of its token.                    *)

NoNode == [k |-> "nil"]
Program(stmts) == [k |-> "Program", Statements |-> stmts]
Literal(type, lit) == [k |-> "Literal", Type |-> type, Literal |-> lit]
Num(n) == Literal("Number", ToString(n))
Str(s) == Literal("String", s)
LitTrue == Literal("True", "true")
LitFalse == Literal("False", "false")
LitNil == Literal("Nil", "nil")
ArrayExpr(elems) == [k |-> "ArrayExpr", Elements |-> elems]
UnaryExpr(op, right) == [k |-> "UnaryExpr", Operator |-> op, Right |-> right]
BinaryExpr(left, op, right) ==
    [k |-> "BinaryExpr", Left |-> left, Operator |-> op, Right |-> right]
LogicalExpr(left, op, right) ==
    [k |-> "LogicalExpr", Left |-> left, Operator |-> op, Right |-> right]
GroupingExpr(e) == [k |-> "GroupingExpr", Expression |-> e]
VariableExpr(name) == [k |-> "VariableExpr", Name |-> name]
AssignExpr(name, value) == [k |-> "AssignExpr", Name |-> name, Value |-> value]
CallExpr(callee, args) == [k |-> "CallExpr", Callee |-> callee, Arguments |-> args]
GetExpr(obj, name) == [k |-> "GetExpr", Obj |-> obj, Name |-> name]
SetExpr(obj, name, value) ==
    [k |-> "SetExpr", Obj |-> obj, Name |-> name, Value |-> value]
ThisExpr == [k |-> "ThisExpr"]
ExprStmt(e) == [k |-> "ExprStmt", Expression |-> e]
PrintStmt(e) == [k |-> "PrintStmt", Expression |-> e]
VariableStmt(name, init) == [k |-> "VariableStmt", Ident |-> name, Initializer |-> init]
BlockStmt(stmts) == [k |-> "BlockStmt", Statements |-> stmts]
IfStmt(cond, then, else) ==
    [k |-> "IfStmt", Condition |-> cond, ThenBranch |-> then, ElseBranch |-> else]
WhileStmt(cond, body) == [k |-> "WhileStmt", Condition |-> cond, Body |-> body]
ReturnStmt(value) == [k |-> "ReturnStmt", Value |-> value]
FunctionStmt(name, params, body) ==
    [k |-> "FunctionStmt", Name |-> name, Params |-> params, Body |-> body,
     IsInitializer |-> FALSE]
\* A method as Parser.classDeclaration builds it: IsInitializer = (Name == "init").
Method(name, params, body) ==
    [k |-> "FunctionStmt", Name |-> name, Params |-> params, Body |-> body,
     IsInitializer |-> (name = "init")]
ClassStmt(name, super, methods) ==
    [k |-> "ClassStmt", Name |-> name, SuperClass |-> super, Methods |-> methods]

StmtKinds == {"ExprStmt", "PrintStmt", "VariableStmt", "BlockStmt", "IfStmt",
              "WhileStmt", "ReturnStmt", "FunctionStmt", "ClassStmt"}

-----------------------------------------------------------------------------
(* Values with an identity (compared as Go pointers): each carries the     *)
(* address it was allocated at.  An Instance's class and fields live in    *)
(* the interpreter's heap of instances.                                    *)

Array(id, elems) == [t |-> "Array", id |-> id, Elements |-> elems]
Function(id, name, params, body, closure, isInit) ==
    [t |-> "Function", id |-> id, Name |-> name, Params |-> params,
     Body |-> body, Closure |-> closure, IsInitializer |-> isInit]
Klass(id, name, methods) ==
    [t |-> "Klass", id |-> id, Name |-> name, Methods |-> methods]
Instance(id) == [t |-> "Instance", id |-> id]
Builtin(name) == [t |-> "Builtin", Name |-> name]

BuiltinNames == {"clock", "at", "len", "push", "rest"}

\* Function.Arity, Klass.Arity and the builtins' Arity.
FindMethod(klass, key) ==
    IF key \in DOMAIN klass.Methods THEN klass.Methods[key] ELSE GoNil

Arity(callee) ==
    IF callee.t = "Function" THEN Len(callee.Params)
    ELSE IF callee.t = "Klass"
         THEN IF FindMethod(callee, "init") /= GoNil
              THEN Len(FindMethod(callee, "init").Params) ELSE 0
    ELSE IF callee.Name = "clock" THEN 0
    ELSE IF callee.Name \in {"at", "push"} THEN 2
    ELSE 1

\* left == right on two interface values holding pointers: the same dynamic
\* type and the same address.
PtrEq(a, b) ==
    IF a.t /= b.t THEN FALSE
    ELSE IF a.t = "Nil" THEN TRUE
    ELSE IF a.t = "Boolean" THEN a.v = b.v
    ELSE IF a.t \in {"Function", "Klass", "Instance", "Array"} THEN a.id = b.id
    ELSE IF a.t = "Builtin" THEN a.Name = b.Name
    ELSE FALSE

RECURSIVE JoinInspect(_, _, _)
RECURSIVE Inspect(_, _)
JoinInspect(elems, i, insts) ==
    IF i > Len(elems) THEN ""
    ELSE (IF i > 1 THEN ", " ELSE "") \o Inspect(elems[i], insts)
         \o JoinInspect(elems, i + 1, insts)

Inspect(v, insts) ==
    IF v.t = "Number" THEN ToString(v.v)
    ELSE IF v.t = "Boolean" THEN (IF v.v THEN "true" ELSE "false")
    ELSE IF v.t = "Nil" THEN "nil"
    ELSE IF v.t = "String" THEN v.v
    ELSE IF v.t = "Return" THEN Inspect(v.v, insts)
    ELSE IF v.t = "Array" THEN "[" \o JoinInspect(v.Elements, 1, insts) \o "]"
    ELSE IF v.t = "Function" THEN "<fn " \o v.Name \o ">"
    ELSE IF v.t = "Klass" THEN "class " \o v.Name
    ELSE IF v.t = "Instance" THEN insts[v.id].Klass.Name \o " instance"
    ELSE "<fn> " \o v.Name

-----------------------------------------------------------------------------
(* The Interpreter (src/interpreter/interpreter.go).  Its state st holds    *)
(*   env    the current environment (Interpreter.env)                       *)
(*   envs   the heap of environments, insts the heap of instances           *)
(*   next   the next address for a Function, Klass or Array                 *)
(*   out    the lines written to standard output                            *)
(* and, for the statements about control flow, a history of the call in     *)
(* progress: cur is the running callFunction activation (0 at top level),   *)
(* calls counts the activations, log lists what was executed and decl the   *)
(* class declarations evaluated.                                            *)
(* An evaluation yields [st, v, err]: err is the message of the Go panic    *)
(* that is unwinding, "" when there is none.                                *)

GlobalEnv == 1

New ==
    [env |-> GlobalEnv,
     envs |-> <<[Values |-> [n \in BuiltinNames |-> Builtin(n)],
                 Enclosing |-> NoEnv]>>,
     insts |-> <<>>, next |-> 1, out |-> <<>>,
     cur |-> 0, calls |-> 0, log |-> <<>>, decl |-> <<>>]

Ok(st, v) == [st |-> st, v |-> v, err |-> ""]
Panic(st, msg) == [st |-> st, v |-> GoNil, err |-> msg]
Failed(r) == r.err /= ""
Logged(st, ev) == [st EXCEPT !.log = Append(@, ev)]

\* The iterations of one while loop the model follows; no program of the
\* model needs more.
MaxLoop == 6

isTruthy(obj) ==
    IF obj.t = "Nil" THEN FALSE
    ELSE IF obj.t = "Boolean" THEN obj.v
    ELSE TRUE

evalBangOperator(right) ==
    IF right = True THEN False
    ELSE IF right = False THEN True
    ELSE IF right.t = "Nil" THEN True
    ELSE False

\* leftValue / rightValue on float64, for the exact quotients of the model.
NumDiv(a, b) ==
    IF b > 0 /\ a % b = 0 THEN a \div b
    ELSE IF b < 0 /\ (-a) % (-b) = 0 THEN (-a) \div (-b)
    ELSE <<"inexact", a, b>>

evalBinaryNumber(op, left, right, st) ==
    IF op = "+" THEN Ok(st, Number(left.v + right.v))
    ELSE IF op = "-" THEN Ok(st, Number(left.v - right.v))
    ELSE IF op = "*" THEN Ok(st, Number(left.v * right.v))
    ELSE IF op = "/" THEN Ok(st, Number(NumDiv(left.v, right.v)))
    ELSE IF op = "<" THEN Ok(st, toBoolanValue(left.v < right.v))
    ELSE IF op = ">" THEN Ok(st, toBoolanValue(left.v > right.v))
    ELSE IF op = "==" THEN Ok(st, toBoolanValue(left.v = right.v))
    ELSE IF op = "!=" THEN Ok(st, toBoolanValue(left.v /= right.v))
    ELSE Panic(st, "unknown operator")

evalBinaryString(op, left, right, st) ==
    IF op /= "+" THEN Panic(st, "unknown operator")
    ELSE Ok(st, String(left.v \o right.v))

evalLiteral(literal, st) ==
    IF literal.Type = "String" THEN Ok(st, String(literal.Literal))
    ELSE IF literal.Type = "Number"
         THEN IF ParseFloat(literal.Literal).err /= ""
              THEN Panic(st, ParseFloat(literal.Literal).err)
              ELSE Ok(st, Number(ParseFloat(literal.Literal).v))
    ELSE IF literal.Type = "Nil" THEN Ok(st, NilV)
    ELSE IF literal.Type = "True" THEN Ok(st, True)
    ELSE IF literal.Type = "False" THEN Ok(st, False)
    ELSE Panic(st, "invalid token")

\* A Bind that defines this in the method's own closure instead of a new
\* environment enclosing it.
BindShared(fn, inst, st) ==
    [st |-> Logged([st EXCEPT !.envs = Define(@, fn.Closure, "this", inst),
                              !.next = @ + 1],
                   <<"bind", inst, fn.Closure>>),
     fn |-> Function(st.next, fn.Name, fn.Params, fn.Body, fn.Closure, FALSE)]

\* Function.Bind: a new Function whose closure encloses fn.Closure and
\* defines this.  Yields [st, fn].
Bind(fn, inst, st) ==
    LET heap == NewEnclosing(st.envs, fn.Closure)
        env == Len(heap)
    IN [st |-> Logged([st EXCEPT !.envs = Define(heap, env, "this", inst),
                                 !.next = @ + 1],
                      <<"bind", inst, env>>),
        fn |-> Function(st.next, fn.Name, fn.Params, fn.Body, env, FALSE)]

\* Instance.Get: the fields, then the methods of the instance's class.
InstanceGet(inst, key, st) ==
    IF key \in DOMAIN st.insts[inst.id].Fields
    THEN [st |-> st, v |-> st.insts[inst.id].Fields[key], ok |-> TRUE]
    ELSE IF FindMethod(st.insts[inst.id].Klass, key) /= GoNil
         THEN LET b == Bind(FindMethod(st.insts[inst.id].Klass, key), inst, st)
              IN [st |-> b.st, v |-> b.fn, ok |-> TRUE]
         ELSE [st |-> st, v |-> GoNil, ok |-> FALSE]

InstanceSet(inst, key, v, st) ==
    [st EXCEPT !.insts[inst.id].Fields =
        [k \in DOMAIN st.insts[inst.id].Fields \cup {key} |->
            IF k = key THEN v ELSE st.insts[inst.id].Fields[k]]]

\* The native functions of src/valuer/builtins.go; clock reads the time.
ClockNow == 1700000000

\* A plausible slip: push appends to the array it was given (Go's append on
\* arr.Elements, handing back arr) so that every holder of the array sees
\* the new element.
callBuiltinInPlace(name, args, st) ==
    IF Len(args) /= Arity(Builtin(name)) THEN Panic(st, "wrong number of arguments")
    ELSE IF name = "clock" THEN Ok(st, Number(ClockNow))
    ELSE IF name = "len"
    THEN IF args[1].t = "Array" THEN Ok(st, Number(Len(args[1].Elements)))
         ELSE IF args[1].t = "String" THEN Ok(st, Number(Len(args[1].v)))
         ELSE Panic(st, "argument of len must be STRING or ARRAY")
    ELSE IF name = "at"
    THEN IF args[1].t /= "Array" THEN Panic(st, "argument to at must be ARRAY")
         ELSE IF args[2].t /= "Number" THEN Panic(st, "argument to at must be NUMBER")
         ELSE IF args[2].v < Len(args[1].Elements) /\ args[2].v >= 0
              THEN Ok(st, args[1].Elements[args[2].v + 1])
              ELSE Ok(st, NilV)
    ELSE IF name = "push"
    THEN IF args[1].t /= "Array" THEN Panic(st, "argument to push must be ARRAY")
         ELSE LET grown == Array(args[1].id, Append(args[1].Elements, args[2]))
                  Held(v) == IF v.t = "Array" THEN v.id = args[1].id ELSE FALSE
              IN Ok([st EXCEPT !.envs =
                        [e \in DOMAIN st.envs |->
                            [st.envs[e] EXCEPT !.Values =
                                [k \in DOMAIN st.envs[e].Values |->
                                    IF Held(st.envs[e].Values[k]) THEN grown
                                    ELSE st.envs[e].Values[k]]]]],
                    grown)
    ELSE IF args[1].t /= "Array" THEN Panic(st, "argument to rest must be ARRAY")
         ELSE IF Len(args[1].Elements) > 0
              THEN Ok([st EXCEPT !.next = @ + 1],
                      Array(st.next, Tail(args[1].Elements)))
              ELSE Ok(st, NilV)

callBuiltin(name, args, st) ==
    IF Len(args) /= Arity(Builtin(name)) THEN Panic(st, "wrong number of arguments")
    ELSE IF name = "clock" THEN Ok(st, Number(ClockNow))
    ELSE IF name = "len"
    THEN IF args[1].t = "Array" THEN Ok(st, Number(Len(args[1].Elements)))
         ELSE IF args[1].t = "String" THEN Ok(st, Number(Len(args[1].v)))
         ELSE Panic(st, "argument of len must be STRING or ARRAY")
    ELSE IF name = "at"
    THEN IF args[1].t /= "Array" THEN Panic(st, "argument to at must be ARRAY")
         ELSE IF args[2].t /= "Number" THEN Panic(st, "argument to at must be NUMBER")
         ELSE IF args[2].v < Len(args[1].Elements) /\ args[2].v >= 0
              THEN Ok(st, args[1].Elements[args[2].v + 1])
              ELSE Ok(st, NilV)
    ELSE IF name = "push"
    THEN IF args[1].t /= "Array" THEN Panic(st, "argument to push must be ARRAY")
         ELSE Ok([st EXCEPT !.next = @ + 1],
                 Array(st.next, Append(args[1].Elements, args[2])))
    ELSE IF args[1].t /= "Array" THEN Panic(st, "argument to rest must be ARRAY")
         ELSE IF Len(args[1].Elements) > 0
              THEN Ok([st EXCEPT !.next = @ + 1],
                      Array(st.next, Tail(args[1].Elements)))
              ELSE Ok(st, NilV)

RECURSIVE eval(_, _)
RECURSIVE evalStatements(_, _, _)
RECURSIVE evalElements(_, _, _)
RECURSIVE bindParams(_, _, _, _, _)
RECURSIVE blockLoop(_, _, _)
RECURSIVE whileLoop(_, _, _)

\* The loop of evalProgram after its first n statements: result is nil
\* until a statement was evaluated.
evalStatements(stmts, n, st) ==
    IF n = 0 THEN Ok(st, GoNil)
    ELSE LET done == evalStatements(stmts, n - 1, st) IN
         IF done.err /= "" THEN done ELSE eval(stmts[n], done.st)

evalProgram(program, st) ==
    evalStatements(program.Statements, Len(program.Statements), st)

\* The first n expressions evaluated left to right; v is the sequence of
\* their values.
evalElements(exprs, n, st) ==
    IF n = 0 THEN Ok(st, <<>>)
    ELSE LET done == evalElements(exprs, n - 1, st) IN
         IF done.err /= "" THEN done
         ELSE LET r == eval(exprs[n], done.st) IN
              IF r.err /= "" THEN r ELSE Ok(r.st, Append(done.v, r.v))

evalArray(array, st) ==
    LET r == evalElements(array.Elements, Len(array.Elements), st) IN
    IF r.err /= "" THEN r
    ELSE Ok([r.st EXCEPT !.next = @ + 1], Array(r.st.next, r.v))

evalUnary(unary, st) ==
    LET r == eval(unary.Right, st) IN
    IF r.err /= "" THEN r
    ELSE IF unary.Operator = "!"
         THEN Ok(Logged(r.st, <<"bang", r.v, evalBangOperator(r.v)>>),
                 evalBangOperator(r.v))
    ELSE IF unary.Operator = "-"
         THEN IF r.v.t /= "Number" THEN Panic(r.st, "unknown operator")
              ELSE Ok(r.st, Number(-r.v.v))
    ELSE Panic(r.st, "unknown operator")

\* operator.Type of == and != ; the history keeps each comparison made.
EqualityOps == {"==", "!="}

evalBinary(binary, st) ==
    LET left == eval(binary.Left, st) IN
    IF left.err /= "" THEN left ELSE
    LET rigth == eval(binary.Right, left.st) IN
    IF rigth.err /= "" THEN rigth ELSE
    LET r == CASE left.v.t = "Number" /\ rigth.v.t = "Number" ->
                    evalBinaryNumber(binary.Operator, left.v, rigth.v, rigth.st)
               [] left.v.t = "String" /\ rigth.v.t = "String" ->
                    evalBinaryString(binary.Operator, left.v, rigth.v, rigth.st)
               [] OTHER ->
                    IF binary.Operator = "=="
                    THEN Ok(rigth.st, toBoolanValue(PtrEq(left.v, rigth.v)))
                    ELSE IF binary.Operator = "!="
                    THEN Ok(rigth.st, toBoolanValue(~PtrEq(left.v, rigth.v)))
                    ELSE IF left.v.t /= rigth.v.t THEN Panic(rigth.st, "type mismatch")
                    ELSE Panic(rigth.st, "unknown operator")
    IN IF binary.Operator \in EqualityOps
       THEN [r EXCEPT !.st = Logged(@, <<"equality", binary.Operator, left.v,
                                         rigth.v, r.v, r.err>>)]
       ELSE r

\* A short-circuit and / or that yields one of its operands.
evalLogicalShort(logical, st) ==
    LET left == eval(logical.Left, st) IN
    IF left.err /= "" THEN left
    ELSE IF logical.Operator = "Or" /\ isTruthy(left.v) THEN left
    ELSE IF logical.Operator = "And" /\ ~isTruthy(left.v) THEN left
    ELSE eval(logical.Right, left.st)

\* The history keeps the operands and the result of each and / or.
evalLogical(logical, st) ==
    LET left == eval(logical.Left, st) IN
    IF left.err /= "" THEN left ELSE
    LET right == eval(logical.Right, left.st) IN
    IF right.err /= "" THEN right ELSE
    LET r == IF logical.Operator = "And"
             THEN Ok(right.st, toBoolanValue(isTruthy(left.v) /\ isTruthy(right.v)))
             ELSE IF logical.Operator = "Or"
             THEN Ok(right.st, toBoolanValue(isTruthy(left.v) \/ isTruthy(right.v)))
             ELSE Panic(right.st, "unknown operator")
    IN [r EXCEPT !.st = Logged(@, <<"logical", logical.Operator, left.v, right.v,
                                    r.v>>)]

evalVariableStmt(stmt, st) ==
    IF stmt.Initializer /= NoNode
    THEN LET r == eval(stmt.Initializer, st) IN
         IF r.err /= "" THEN r
         ELSE Ok([r.st EXCEPT !.envs = Define(@, r.st.env, stmt.Ident, r.v)], NilV)
    ELSE Ok([st EXCEPT !.envs = Define(@, st.env, stmt.Ident, NilV)], NilV)

evalVariableExpr(expr, st) ==
    IF Get(st.envs, st.env, expr.Name).ok
    THEN Ok(st, Get(st.envs, st.env, expr.Name).v)
    ELSE Panic(st, "identifier not found")

\* The history keeps each Assign: the name, the environment it started
\* from, its result and the environments before and after it.
evalAssignExpr(expr, st) ==
    LET r == eval(expr.Value, st) IN
    IF r.err /= "" THEN r
    ELSE LET a == Assign(r.st.envs, r.st.env, expr.Name, r.v)
             assigned == Logged([r.st EXCEPT !.envs = a.heap],
                                <<"assign", expr.Name, r.st.env, a.ok,
                                  r.st.envs, a.heap>>)
         IN IF a.ok THEN Ok(assigned, r.v)
            ELSE Panic(assigned, "identifier not found")

evalThisExpr(expr, st) ==
    IF Get(st.envs, st.env, "this").ok
    THEN Ok(Logged(st, <<"this", Get(st.envs, st.env, "this").v, st.cur>>),
            Get(st.envs, st.env, "this").v)
    ELSE Panic(st, "could not use this outside a class")

\* defer func() { i.env = previous }() runs when executeBlock returns and
\* when a panic unwinds through it.
\* An executeBlock whose restore is an ordinary last statement: a panic
\* unwinding through it leaves i.env as it is.
executeBlockNoDefer(stmts, env, st) ==
    LET previous == st.env
        r == blockLoop(stmts, Len(stmts),
                       Logged([st EXCEPT !.env = env], <<"enter", previous>>))
        after == IF r.err /= "" THEN r ELSE [r EXCEPT !.st.env = previous]
    IN [after EXCEPT !.st = Logged(@, <<"leave", previous, after.st.env>>)]

executeBlock(stmts, env, st) ==
    LET previous == st.env
        r == blockLoop(stmts, Len(stmts),
                       Logged([st EXCEPT !.env = env], <<"enter", previous>>))
        after == [r EXCEPT !.st.env = previous]
    IN [after EXCEPT !.st = Logged(@, <<"leave", previous, after.st.env>>)]

\* A block loop that does not look at the result of a statement.
blockLoopNoStop(stmts, n, st) ==
    IF n = 0 THEN Ok(st, NilV)
    ELSE LET done == blockLoop(stmts, n - 1, st) IN
         IF done.err /= "" THEN done ELSE eval(stmts[n], done.st)

\* The loop of executeBlock after its first n statements, or after the one
\* that made it return.
blockLoop(stmts, n, st) ==
    IF n = 0 THEN Ok(st, NilV)
    ELSE LET done == blockLoop(stmts, n - 1, st) IN
         IF done.err /= "" \/ done.v.t = "Return" THEN done
         ELSE eval(stmts[n], done.st)

\* environment.Define(param.Name, i.eval(args[index])): the arguments are
\* evaluated in the interpreter's current environment, the caller's.
bindParams(params, args, n, environment, st) ==
    IF n = 0 THEN Ok(st, NilV)
    ELSE LET done == bindParams(params, args, n - 1, environment, st) IN
         IF done.err /= "" THEN done
         ELSE IF n > Len(args) THEN Panic(done.st, "index out of range")
         ELSE LET r == eval(args[n], done.st) IN
              IF r.err /= "" THEN r
              ELSE Ok([r.st EXCEPT !.envs = Define(@, environment, params[n], r.v)],
                      NilV)

\* The rest of callFunction once the environment of the call is made.
callBody(fn, args, st, heap) ==
    LET environment == Len(heap)
        b == bindParams(fn.Params, args, Len(fn.Params), environment,
                        [st EXCEPT !.envs = heap])
    IN IF b.err /= "" THEN b ELSE
       LET cid == b.st.calls + 1
           entered == Logged([b.st EXCEPT !.calls = cid, !.cur = cid],
                             <<"call", cid, environment, fn.Closure, st.env>>)
           v == executeBlock(fn.Body, environment, entered)
           left == [v.st EXCEPT !.cur = st.cur]
       IN IF v.err /= "" THEN [v EXCEPT !.st = left]
          ELSE IF v.v.t = "Return"
               THEN Ok(Logged(left, <<"callret", cid, v.v.v>>), v.v.v)
          ELSE Ok(Logged(left, <<"callret", cid, NilV>>), NilV)

\* A call whose environment encloses the caller's current environment.
callFunctionDynamic(fn, args, st) ==
    callBody(fn, args, st, NewEnclosing(st.envs, st.env))

callFunction(fn, args, st) ==
    callBody(fn, args, st, NewEnclosing(st.envs, fn.Closure))

\* A class call that yields what init yields.
ctorInstanceInitResult(klass, args, st) ==
    LET instance == Instance(Len(st.insts) + 1)
        made == [st EXCEPT !.insts = Append(@, [Klass |-> klass, Fields |-> EmptyValues])]
        initializer == FindMethod(klass, "init")
    IN IF initializer /= GoNil
       THEN callFunction(Bind(initializer, instance, made).fn, args,
                         Bind(initializer, instance, made).st)
       ELSE Ok(made, instance)

ctorInstance(klass, args, st) ==
    LET instance == Instance(Len(st.insts) + 1)
        made == [st EXCEPT !.insts = Append(@, [Klass |-> klass, Fields |-> EmptyValues])]
        initializer == FindMethod(klass, "init")
    IN IF initializer /= GoNil
       THEN LET b == Bind(initializer, instance, made)
                r == callFunction(b.fn, args, b.st)
            IN IF r.err /= "" THEN r ELSE Ok(r.st, instance)
       ELSE Ok(made, instance)

\* A call check that does not compare the number of arguments with the arity.
checkCallNoArity(callee, numArgs) ==
    IF callee.t \notin {"Function", "Klass", "Builtin"} THEN "not a function"
    ELSE ""

\* The two checks of evalCallExpr: the callee is a valuer.Callable and its
\* Arity is the number of arguments; the message of the runtime error, ""
\* when the call goes on.
checkCall(callee, numArgs) ==
    IF callee.t \notin {"Function", "Klass", "Builtin"} THEN "not a function"
    ELSE IF Arity(callee) /= numArgs THEN "Expected arguments"
    ELSE ""

\* The history keeps the callee and the number of arguments of each call
\* expression, with the calls made and the instances created before it.
evalCallExpr(expr, st) ==
    LET c == eval(expr.Callee, st) IN
    IF c.err /= "" THEN c ELSE
    LET called == Logged([c.st EXCEPT !.out = Append(@, "called " \o Inspect(c.v, c.st.insts))],
                         <<"callee", c.v, Len(expr.Arguments), c.st.calls,
                           Len(c.st.insts)>>)
        check == checkCall(c.v, Len(expr.Arguments))
    IN
    CASE check /= "" -> Panic(called, check)
      [] check = "" /\ c.v.t = "Builtin" ->
           LET params == evalElements(expr.Arguments, Len(expr.Arguments), called) IN
           IF params.err /= "" THEN params
           ELSE callBuiltin(c.v.Name, params.v, params.st)
      [] check = "" /\ c.v.t = "Function" ->
           callFunction(c.v, expr.Arguments, called)
      [] check = "" /\ c.v.t = "Klass" ->
           LET made == ctorInstance(c.v, expr.Arguments, called) IN
           IF made.err /= "" THEN made
           ELSE [made EXCEPT !.st = Logged(@, <<"new", c.v, made.v>>)]

evalSetExpr(expr, st) ==
    LET obj == eval(expr.Obj, st) IN
    IF obj.err /= "" THEN obj
    ELSE IF obj.v.t /= "Instance" THEN Panic(obj.st, "required instance")
    ELSE LET v == eval(expr.Value, obj.st) IN
         IF v.err /= "" THEN v
         ELSE Ok(InstanceSet(obj.v, expr.Name, v.v, v.st), v.v)

evalGetExpr(expr, st) ==
    LET obj == eval(expr.Obj, st) IN
    IF obj.err /= "" THEN obj
    ELSE IF obj.v.t /= "Instance" THEN Panic(obj.st, "required instance")
    ELSE LET property == InstanceGet(obj.v, expr.Name, obj.st) IN
         IF property.ok
         THEN Ok(Logged(property.st, <<"get", obj.v, expr.Name, TRUE,
                                       Len(obj.st.decl)>>), property.v)
         ELSE Panic(Logged(obj.st, <<"get", obj.v, expr.Name, FALSE,
                                     Len(obj.st.decl)>>),
                    "undefined propterty")

evalBlockStmt(stmt, st) ==
    LET heap == NewEnclosing(st.envs, st.env) IN
    executeBlock(stmt.Statements, Len(heap), [st EXCEPT !.envs = heap])

evalIfStmt(stmt, st) ==
    LET condition == eval(stmt.Condition, st) IN
    IF condition.err /= "" THEN condition
    ELSE IF isTruthy(condition.v) THEN eval(stmt.ThenBranch, condition.st)
    ELSE IF stmt.ElseBranch = NoNode THEN Ok(condition.st, NilV)
    ELSE eval(stmt.ElseBranch, condition.st)

\* for isTruthy(i.eval(stmt.Condition)) { ... }, n counting the iterations.
whileLoop(stmt, st, n) ==
    IF n > MaxLoop THEN Panic(st, "model: MaxLoop iterations")
    ELSE LET condition == eval(stmt.Condition, Logged(st, <<"cond", st.cur>>)) IN
         IF condition.err /= "" THEN condition
         ELSE IF ~isTruthy(condition.v) THEN Ok(condition.st, NilV)
         ELSE LET result == eval(stmt.Body, condition.st) IN
              IF result.err /= "" THEN result
              ELSE IF result.v /= GoNil /\ result.v.t = "Return" THEN result
              ELSE whileLoop(stmt, result.st, n + 1)

evalWhileStmt(stmt, st) == whileLoop(stmt, st, 1)

\* A function declaration that captures the global environment.
evalFunctionStmtGlobal(stmt, st) ==
    LET v == Function(st.next, stmt.Name, stmt.Params, stmt.Body, GlobalEnv,
                      stmt.IsInitializer)
    IN Ok([st EXCEPT !.next = @ + 1, !.envs = Define(@, st.env, stmt.Name, v)], NilV)

evalFunctionStmt(stmt, st) ==
    LET v == Function(st.next, stmt.Name, stmt.Params, stmt.Body, st.env,
                      stmt.IsInitializer)
    IN Ok([st EXCEPT !.next = @ + 1, !.envs = Define(@, st.env, stmt.Name, v)], NilV)

\* methods[method.Name] = fn for each method in order: the last of a name wins.
\* stmt.SuperClass is not read.
evalClassStmt(stmt, st) ==
    LET last(name) == CHOOSE i \in 1..Len(stmt.Methods) :
                          /\ stmt.Methods[i].Name = name
                          /\ \A j \in 1..Len(stmt.Methods) :
                                stmt.Methods[j].Name = name => j <= i
        methods == [name \in {stmt.Methods[i].Name : i \in 1..Len(stmt.Methods)} |->
                       Function(st.next + last(name) - 1, name,
                                stmt.Methods[last(name)].Params,
                                stmt.Methods[last(name)].Body, st.env,
                                stmt.Methods[last(name)].IsInitializer)]
        klass == Klass(st.next + Len(stmt.Methods), stmt.Name, methods)
    IN Ok([st EXCEPT !.next = @ + Len(stmt.Methods) + 1,
                     !.envs = Define(@, st.env, stmt.Name, klass),
                     !.decl = Append(@, stmt)], NilV)

evalPrintStmt(stmt, st) ==
    LET v == eval(stmt.Expression, st) IN
    IF v.err /= "" THEN v
    ELSE LET line == Inspect(v.v, v.st.insts) IN
         Ok(Logged([v.st EXCEPT !.out = Append(@, line)], <<"print", line>>), NilV)

evalReturnStmt(stmt, st) ==
    IF stmt.Value /= NoNode
    THEN LET v == eval(stmt.Value, st) IN
         IF v.err /= "" THEN v
         ELSE Ok(Logged(v.st, <<"return", v.st.cur, v.v>>), Return(v.v))
    ELSE Ok(Logged(st, <<"return", st.cur, NilV>>), Return(NilV))

\* The type switch of eval; a statement is entered in the history first.
eval(node, st0) ==
    LET st == IF node.k \in StmtKinds
              THEN Logged(st0, <<"stmt", st0.cur, node.k>>) ELSE st0
    IN
    CASE node.k = "Program" -> evalProgram(node, st)
      [] node.k = "ExprStmt" -> eval(node.Expression, st)
      [] node.k = "Literal" -> evalLiteral(node, st)
      [] node.k = "ArrayExpr" -> evalArray(node, st)
      [] node.k = "UnaryExpr" -> evalUnary(node, st)
      [] node.k = "BinaryExpr" -> evalBinary(node, st)
      [] node.k = "LogicalExpr" -> evalLogical(node, st)
      [] node.k = "GroupingExpr" -> eval(node.Expression, st)
      [] node.k = "VariableStmt" -> evalVariableStmt(node, st)
      [] node.k = "AssignExpr" -> evalAssignExpr(node, st)
      [] node.k = "VariableExpr" -> evalVariableExpr(node, st)
      [] node.k = "CallExpr" -> evalCallExpr(node, st)
      [] node.k = "GetExpr" -> evalGetExpr(node, st)
      [] node.k = "SetExpr" -> evalSetExpr(node, st)
      [] node.k = "ThisExpr" -> evalThisExpr(node, st)
      [] node.k = "BlockStmt" -> evalBlockStmt(node, st)
      [] node.k = "ReturnStmt" -> evalReturnStmt(node, st)
      [] node.k = "IfStmt" -> evalIfStmt(node, st)
      [] node.k = "WhileStmt" -> evalWhileStmt(node, st)
      [] node.k = "FunctionStmt" -> evalFunctionStmt(node, st)
      [] node.k = "ClassStmt" -> evalClassStmt(node, st)
      [] node.k = "PrintStmt" -> evalPrintStmt(node, st)
      [] OTHER -> Panic(st, "unknown ast type")

\* Evaluate: the value of eval, or the error its deferred recover() made of
\* the panic.
Evaluate(node, st) == eval(node, st)

-----------------------------------------------------------------------------
(* SpecEnv: any tree of at most MaxEnvs environments, built by             *)
(* NewEnclosing and Define, with Get and Assign called on any of them.     *)

MaxEnvs == 3
EnvNames == {"a", "b"}
\* The bindings Define and Assign are called with.
EnvInputs == {<<"a", Number(1)>>, <<"a", Number(2)>>, <<"b", Number(1)>>}

EnvInit ==
    /\ eHeap = <<NewEnvironment>>
    /\ eLast = [op |-> "none"]
    /\ interp = Idle /\ evLast = Idle
    /\ vm = Idle /\ vmStatus = Idle /\ vmProg = Idle
    /\ lx = Idle /\ px = Idle /\ repl = Idle

EnvNewEnclosing ==
    \E e \in 1..Len(eHeap) :
        /\ Len(eHeap) < MaxEnvs
        /\ eHeap' = NewEnclosing(eHeap, e)
        /\ eLast' = [op |-> "NewEnclosing"]
        /\ UNCHANGED <<frontVars, evalVars, vmVars>>

EnvDefine ==
    \E e \in 1..Len(eHeap), kv \in EnvInputs :
        /\ eHeap' = Define(eHeap, e, kv[1], kv[2])
        /\ eLast' = [op |-> "Define"]
        /\ UNCHANGED <<frontVars, evalVars, vmVars>>

EnvGet ==
    \E e \in 1..Len(eHeap), key \in EnvNames :
        /\ eLast' = [op |-> "Get", env |-> e, key |-> key,
                     res |-> Get(eHeap, e, key)]
        /\ UNCHANGED <<frontVars, eHeap, evalVars, vmVars>>

EnvAssign ==
    \E e \in 1..Len(eHeap), kv \in EnvInputs :
        LET r == Assign(eHeap, e, kv[1], kv[2]) IN
        /\ eHeap' = r.heap
        /\ eLast' = [op |-> "Assign", env |-> e, key |-> kv[1], v |-> kv[2],
                     ok |-> r.ok, before |-> eHeap]
        /\ UNCHANGED <<frontVars, evalVars, vmVars>>

EnvNext == EnvNewEnclosing \/ EnvDefine \/ EnvGet \/ EnvAssign

SpecEnv == EnvInit /\ [][EnvNext]_vars

\* The environments on the way from env to the root, nearest first.
RECURSIVE PathToRoot(_, _)
PathToRoot(heap, env) ==
    IF env = NoEnv THEN <<>> ELSE <<env>> \o PathToRoot(heap, heap[env].Enclosing)

\* The positions of the path whose environment defines key.
Definers(heap, env, key) ==
    {i \in 1..Len(PathToRoot(heap, env)) :
        key \in DOMAIN heap[PathToRoot(heap, env)[i]].Values}

\* The nearest environment on the path that defines key (NoEnv when none).
Nearest(heap, env, key) ==
    IF Definers(heap, env, key) = {} THEN NoEnv
    ELSE PathToRoot(heap, env)[CHOOSE i \in Definers(heap, env, key) :
                                  \A j \in Definers(heap, env, key) : i <= j]

\* C3: Get returns the binding of the nearest environment on the path to the
\* root that defines the name; after a successful Assign exactly that binding
\* holds the new value, and every other binding of every environment (other
\* names, same-named bindings farther up or in unrelated environments) is as
\* it was before.
C3_NearestBinding ==
    /\ eLast.op = "Get" =>
          LET n == Nearest(eHeap, eLast.env, eLast.key) IN
          /\ eLast.res.ok = (n /= NoEnv)
          /\ n /= NoEnv => eLast.res.v = eHeap[n].Values[eLast.key]
    /\ (eLast.op = "Assign" /\ eLast.ok) =>
          LET n == Nearest(eLast.before, eLast.env, eLast.key) IN
          /\ n /= NoEnv
          /\ Len(eHeap) = Len(eLast.before)
          /\ \A e \in 1..Len(eHeap) :
                /\ eHeap[e].Enclosing = eLast.before[e].Enclosing
                /\ DOMAIN eHeap[e].Values = DOMAIN eLast.before[e].Values
                /\ \A k \in DOMAIN eHeap[e].Values :
                      eHeap[e].Values[k] =
                          IF e = n /\ k = eLast.key THEN eLast.v
                          ELSE eLast.before[e].Values[k]

\* An Assign through a chain of three environments reached a binding that is
\* not in the environment it was called on, past a sibling that defines the
\* same name with another value.
C3_Witness ==
    /\ eLast.op = "Assign" /\ eLast.ok
    /\ Len(eHeap) = 3
    /\ Nearest(eLast.before, eLast.env, eLast.key) /= eLast.env
    /\ \E s \in 1..Len(eHeap) :
          /\ s \notin {PathToRoot(eHeap, eLast.env)[i] :
                          i \in 1..Len(PathToRoot(eHeap, eLast.env))}
          /\ eLast.key \in DOMAIN eHeap[s].Values
          /\ eHeap[s].Values[eLast.key] /= eLast.v


-----------------------------------------------------------------------------
(* SpecEval: one Interpreter, as the REPL and the tests use it, evaluating *)
(* up to MaxEvaluates programs one after the other.  The programs are the  *)
(* trees Parser.Parse builds for the source text quoted above each.        *)

\* let a = 1; { let a = 2; a = 3; } a;
ProgBlock ==
    Program(<<VariableStmt("a", Num(1)),
              BlockStmt(<<VariableStmt("a", Num(2)),
                          ExprStmt(AssignExpr("a", Num(3)))>>),
              ExprStmt(VariableExpr("a"))>>)

\* fn gen(x) { let a = 0; fn inner(y) { a = a + 1; return a + x + y; }
\*             return inner; }
\* let g = gen(1); g(1);
ProgClosure ==
    Program(<<FunctionStmt("gen", <<"x">>,
                <<VariableStmt("a", Num(0)),
                  FunctionStmt("inner", <<"y">>,
                    <<ExprStmt(AssignExpr("a",
                          BinaryExpr(VariableExpr("a"), "+", Num(1)))),
                      ReturnStmt(BinaryExpr(
                          BinaryExpr(VariableExpr("a"), "+", VariableExpr("x")),
                          "+", VariableExpr("y")))>>),
                  ReturnStmt(VariableExpr("inner"))>>),
              VariableStmt("g", CallExpr(VariableExpr("gen"), <<Num(1)>>)),
              ExprStmt(CallExpr(VariableExpr("g"), <<Num(1)>>))>>)

\* g(1);
ProgCallG == Program(<<ExprStmt(CallExpr(VariableExpr("g"), <<Num(1)>>))>>)

\* print 2; return 1;
ProgTopReturn == Program(<<PrintStmt(Num(2)), ReturnStmt(Num(1))>>)

\* if (true) { while (true) { return 1; } }
ProgTopBlockReturn ==
    Program(<<IfStmt(LitTrue,
                BlockStmt(<<WhileStmt(LitTrue, BlockStmt(<<ReturnStmt(Num(1))>>))>>),
                NoNode)>>)

\* fn f(n) { let i = 0;
\*           while (i < 2) { if (i == n) { { return i + 10; } } i = i + 1; }
\*           print "end"; return 99; }
\* f(0);
ProgNestedReturn ==
    Program(<<FunctionStmt("f", <<"n">>,
                <<VariableStmt("i", Num(0)),
                  WhileStmt(BinaryExpr(VariableExpr("i"), "<", Num(2)),
                    BlockStmt(<<
                      IfStmt(BinaryExpr(VariableExpr("i"), "==", VariableExpr("n")),
                        BlockStmt(<<BlockStmt(<<ReturnStmt(
                            BinaryExpr(VariableExpr("i"), "+", Num(10)))>>)>>),
                        NoNode),
                      ExprStmt(AssignExpr("i",
                          BinaryExpr(VariableExpr("i"), "+", Num(1))))>>)),
                  PrintStmt(Str("end")),
                  ReturnStmt(Num(99))>>),
              ExprStmt(CallExpr(VariableExpr("f"), <<Num(0)>>))>>)

\* f(5);
ProgCallF == Program(<<ExprStmt(CallExpr(VariableExpr("f"), <<Num(5)>>))>>)

\* fn inner() { if (true) { return 1; } print "no"; }
\* fn outer() { let x = inner(); print "after"; return x + 1; }
\* outer();
ProgInnerReturn ==
    Program(<<FunctionStmt("inner", <<>>,
                <<IfStmt(LitTrue, BlockStmt(<<ReturnStmt(Num(1))>>), NoNode),
                  PrintStmt(Str("no"))>>),
              FunctionStmt("outer", <<>>,
                <<VariableStmt("x", CallExpr(VariableExpr("inner"), <<>>)),
                  PrintStmt(Str("after")),
                  ReturnStmt(BinaryExpr(VariableExpr("x"), "+", Num(1)))>>),
              ExprStmt(CallExpr(VariableExpr("outer"), <<>>))>>)

\* class A { init(x) { this.x = x; return 5; } } A(7);
ProgInitReturn ==
    Program(<<ClassStmt("A", NoNode,
                <<Method("init", <<"x">>,
                    <<ExprStmt(SetExpr(ThisExpr, "x", VariableExpr("x"))),
                      ReturnStmt(Num(5))>>)>>),
              ExprStmt(CallExpr(VariableExpr("A"), <<Num(7)>>))>>)

\* class B { init() { return; } } B();
ProgInitBare ==
    Program(<<ClassStmt("B", NoNode,
                <<Method("init", <<>>, <<ReturnStmt(NoNode)>>)>>),
              ExprStmt(CallExpr(VariableExpr("B"), <<>>))>>)

\* class P { init(x) { this.x = x; } } let p = P(3); p.x;
ProgInitNone ==
    Program(<<ClassStmt("P", NoNode,
                <<Method("init", <<"x">>,
                    <<ExprStmt(SetExpr(ThisExpr, "x", VariableExpr("x")))>>)>>),
              VariableStmt("p", CallExpr(VariableExpr("P"), <<Num(3)>>)),
              ExprStmt(GetExpr(VariableExpr("p"), "x"))>>)

\* class E {} E();
ProgNoInit ==
    Program(<<ClassStmt("E", NoNode, <<>>),
              ExprStmt(CallExpr(VariableExpr("E"), <<>>))>>)

\* class C { m() { return 1; } } class D < C {} D().m();
ProgInherit ==
    Program(<<ClassStmt("C", NoNode,
                <<Method("m", <<>>, <<ReturnStmt(Num(1))>>)>>),
              ClassStmt("D", VariableExpr("C"), <<>>),
              ExprStmt(CallExpr(GetExpr(CallExpr(VariableExpr("D"), <<>>), "m"),
                                <<>>))>>)

\* class C { m() { return 1; } } let c = C(); print c.m(); c.m = 5; c.m;
ProgFields ==
    Program(<<ClassStmt("C", NoNode,
                <<Method("m", <<>>, <<ReturnStmt(Num(1))>>)>>),
              VariableStmt("c", CallExpr(VariableExpr("C"), <<>>)),
              PrintStmt(CallExpr(GetExpr(VariableExpr("c"), "m"), <<>>)),
              ExprStmt(SetExpr(VariableExpr("c"), "m", Num(5))),
              ExprStmt(GetExpr(VariableExpr("c"), "m"))>>)

\* class C { m() { return 1; } } C().q;
ProgNoProperty ==
    Program(<<ClassStmt("C", NoNode,
                <<Method("m", <<>>, <<ReturnStmt(Num(1))>>)>>),
              ExprStmt(GetExpr(CallExpr(VariableExpr("C"), <<>>), "q"))>>)

\* fn f() { { let x = 1; { y; } } } { f(); }
ProgErrorNested ==
    Program(<<FunctionStmt("f", <<>>,
                <<BlockStmt(<<VariableStmt("x", Num(1)),
                              BlockStmt(<<ExprStmt(VariableExpr("y"))>>)>>)>>),
              BlockStmt(<<ExprStmt(CallExpr(VariableExpr("f"), <<>>))>>)>>)

\* let x = 1; fn f() { return x; } fn h() { let x = 2; return f(); } h();
ProgScope ==
    Program(<<VariableStmt("x", Num(1)),
              FunctionStmt("f", <<>>, <<ReturnStmt(VariableExpr("x"))>>),
              FunctionStmt("h", <<>>,
                <<VariableStmt("x", Num(2)),
                  ReturnStmt(CallExpr(VariableExpr("f"), <<>>))>>),
              ExprStmt(CallExpr(VariableExpr("h"), <<>>))>>)

\* fn f(a) { return a; } fn h() { let y = 7; return f(y); } h();
ProgArgs ==
    Program(<<FunctionStmt("f", <<"a">>, <<ReturnStmt(VariableExpr("a"))>>),
              FunctionStmt("h", <<>>,
                <<VariableStmt("y", Num(7)),
                  ReturnStmt(CallExpr(VariableExpr("f"), <<VariableExpr("y")>>))>>),
              ExprStmt(CallExpr(VariableExpr("h"), <<>>))>>)

\* fn f(a) { let l = 1; return a; } f(5); l;
ProgLocals ==
    Program(<<FunctionStmt("f", <<"a">>,
                <<VariableStmt("l", Num(1)), ReturnStmt(VariableExpr("a"))>>),
              ExprStmt(CallExpr(VariableExpr("f"), <<Num(5)>>)),
              ExprStmt(VariableExpr("l"))>>)

\* fn fact(n) { if (n < 2) { return 1; } return fact(n - 1) * n; } fact(2);
ProgFact ==
    Program(<<FunctionStmt("fact", <<"n">>,
                <<IfStmt(BinaryExpr(VariableExpr("n"), "<", Num(2)),
                         BlockStmt(<<ReturnStmt(Num(1))>>), NoNode),
                  ReturnStmt(BinaryExpr(
                      CallExpr(VariableExpr("fact"),
                               <<BinaryExpr(VariableExpr("n"), "-", Num(1))>>),
                      "*", VariableExpr("n")))>>),
              ExprStmt(CallExpr(VariableExpr("fact"), <<Num(2)>>))>>)

\* print !nil and -(6 / 2) < 1 or "s" + "t"; len(push(rest([1, 2]), 3));
ProgBuiltin ==
    Program(<<PrintStmt(LogicalExpr(
                  LogicalExpr(UnaryExpr("!", LitNil), "And",
                      BinaryExpr(UnaryExpr("-", GroupingExpr(
                                     BinaryExpr(Num(6), "/", Num(2)))),
                                 "<", Num(1))),
                  "Or", BinaryExpr(Str("s"), "+", Str("t")))),
              ExprStmt(CallExpr(VariableExpr("len"),
                  <<CallExpr(VariableExpr("push"),
                      <<CallExpr(VariableExpr("rest"),
                            <<ArrayExpr(<<Num(1), Num(2)>>)>>),
                        Num(3)>>)>>))>>)

\* class A { init(y) { this.y = y; } m() { return this.x; } }
\* let a = A(2); a.x = 1; a.m();
ProgBoundDirect ==
    Program(<<ClassStmt("A", NoNode,
                <<Method("init", <<"y">>,
                    <<ExprStmt(SetExpr(ThisExpr, "y", VariableExpr("y")))>>),
                  Method("m", <<>>, <<ReturnStmt(GetExpr(ThisExpr, "x"))>>)>>),
              VariableStmt("a", CallExpr(VariableExpr("A"), <<Num(2)>>)),
              ExprStmt(SetExpr(VariableExpr("a"), "x", Num(1))),
              ExprStmt(CallExpr(GetExpr(VariableExpr("a"), "m"), <<>>))>>)

\* class A { m() { return this.x; } }
\* let a = A(); a.x = 1; let b = A(); b.x = 2; let m = a.m; b.m; m();
ProgBoundVar ==
    Program(<<ClassStmt("A", NoNode,
                <<Method("m", <<>>, <<ReturnStmt(GetExpr(ThisExpr, "x"))>>)>>),
              VariableStmt("a", CallExpr(VariableExpr("A"), <<>>)),
              ExprStmt(SetExpr(VariableExpr("a"), "x", Num(1))),
              VariableStmt("b", CallExpr(VariableExpr("A"), <<>>)),
              ExprStmt(SetExpr(VariableExpr("b"), "x", Num(2))),
              VariableStmt("m", GetExpr(VariableExpr("a"), "m")),
              ExprStmt(GetExpr(VariableExpr("b"), "m")),
              ExprStmt(CallExpr(VariableExpr("m"), <<>>))>>)

\* class A { m() { return this.x; } } class B {}
\* let a = A(); a.x = 1; let b = B(); b.x = 2; b.f = a.m; b.f();
ProgBoundField ==
    Program(<<ClassStmt("A", NoNode,
                <<Method("m", <<>>, <<ReturnStmt(GetExpr(ThisExpr, "x"))>>)>>),
              ClassStmt("B", NoNode, <<>>),
              VariableStmt("a", CallExpr(VariableExpr("A"), <<>>)),
              ExprStmt(SetExpr(VariableExpr("a"), "x", Num(1))),
              VariableStmt("b", CallExpr(VariableExpr("B"), <<>>)),
              ExprStmt(SetExpr(VariableExpr("b"), "x", Num(2))),
              ExprStmt(SetExpr(VariableExpr("b"), "f", GetExpr(VariableExpr("a"), "m"))),
              ExprStmt(CallExpr(GetExpr(VariableExpr("b"), "f"), <<>>))>>)

\* "a" == "a";
ProgEqString == Program(<<ExprStmt(BinaryExpr(Str("a"), "==", Str("a")))>>)

\* "a" != "b";
ProgNeString == Program(<<ExprStmt(BinaryExpr(Str("a"), "!=", Str("b")))>>)

\* 1 == 1; 1 != 1; nil == nil; true != false; 1 == "1"; nil != false;
\* let a = [1]; a == a; fn f() {} f == f; [1] == [1];
ProgEqValues ==
    Program(<<ExprStmt(BinaryExpr(Num(1), "==", Num(1))),
              ExprStmt(BinaryExpr(Num(1), "!=", Num(1))),
              ExprStmt(BinaryExpr(LitNil, "==", LitNil)),
              ExprStmt(BinaryExpr(LitTrue, "!=", LitFalse)),
              ExprStmt(BinaryExpr(Num(1), "==", Str("1"))),
              ExprStmt(BinaryExpr(LitNil, "!=", LitFalse)),
              VariableStmt("a", ArrayExpr(<<Num(1)>>)),
              ExprStmt(BinaryExpr(VariableExpr("a"), "==", VariableExpr("a"))),
              FunctionStmt("f", <<>>, <<>>),
              ExprStmt(BinaryExpr(VariableExpr("f"), "==", VariableExpr("f"))),
              ExprStmt(BinaryExpr(ArrayExpr(<<Num(1)>>), "==", ArrayExpr(<<Num(1)>>)))>>)

\* !!nil; !!0; !!false; !!"a"; !![1]; !!true;
ProgDoubleBang ==
    Program(<<ExprStmt(UnaryExpr("!", UnaryExpr("!", LitNil))),
              ExprStmt(UnaryExpr("!", UnaryExpr("!", Num(0)))),
              ExprStmt(UnaryExpr("!", UnaryExpr("!", LitFalse))),
              ExprStmt(UnaryExpr("!", UnaryExpr("!", Str("a")))),
              ExprStmt(UnaryExpr("!", UnaryExpr("!", ArrayExpr(<<Num(1)>>)))),
              ExprStmt(UnaryExpr("!", UnaryExpr("!", LitTrue)))>>)

\* fn left(v) { print "l"; return v; }  fn right(v) { print "r"; return v; }
\* print left(false) and right(5);  print left(7) or right(nil);
\* print left(nil) or right(nil);   left(1) and right(2);
ProgLogical ==
    Program(<<FunctionStmt("left", <<"v">>,
                 <<PrintStmt(Str("l")), ReturnStmt(VariableExpr("v"))>>),
              FunctionStmt("right", <<"v">>,
                 <<PrintStmt(Str("r")), ReturnStmt(VariableExpr("v"))>>),
              PrintStmt(LogicalExpr(CallExpr(VariableExpr("left"), <<LitFalse>>), "And",
                                    CallExpr(VariableExpr("right"), <<Num(5)>>))),
              PrintStmt(LogicalExpr(CallExpr(VariableExpr("left"), <<Num(7)>>), "Or",
                                    CallExpr(VariableExpr("right"), <<LitNil>>))),
              PrintStmt(LogicalExpr(CallExpr(VariableExpr("left"), <<LitNil>>), "Or",
                                    CallExpr(VariableExpr("right"), <<LitNil>>))),
              ExprStmt(LogicalExpr(CallExpr(VariableExpr("left"), <<Num(1)>>), "And",
                                   CallExpr(VariableExpr("right"), <<Num(2)>>)))>>)

\* let a = 1; { let b = 2; { z = (a = a + b); } }
ProgAssignUndefined ==
    Program(<<VariableStmt("a", Num(1)),
              BlockStmt(<<VariableStmt("b", Num(2)),
                 BlockStmt(<<ExprStmt(AssignExpr("z",
                    GroupingExpr(AssignExpr("a",
                       BinaryExpr(VariableExpr("a"), "+", VariableExpr("b"))))))>>)>>)>>)

\* fn f() { zz = 1; } f();
ProgAssignInCall ==
    Program(<<FunctionStmt("f", <<>>, <<ExprStmt(AssignExpr("zz", Num(1)))>>),
              ExprStmt(CallExpr(VariableExpr("f"), <<>>))>>)

\* class E {} E()();
ProgCallInstance ==
    Program(<<ClassStmt("E", NoNode, <<>>),
              ExprStmt(CallExpr(CallExpr(VariableExpr("E"), <<>>), <<>>))>>)

\* fn f(a) { print "ran"; } f();
ProgCallFewArgs ==
    Program(<<FunctionStmt("f", <<"a">>, <<PrintStmt(Str("ran"))>>),
              ExprStmt(CallExpr(VariableExpr("f"), <<>>))>>)

\* fn f(a) { print "ran"; } f(1, nowhere);
ProgCallManyArgs ==
    Program(<<FunctionStmt("f", <<"a">>, <<PrintStmt(Str("ran"))>>),
              ExprStmt(CallExpr(VariableExpr("f"), <<Num(1), VariableExpr("nowhere")>>))>>)

\* class K { init(a) { print "ran"; } } K();
ProgCallClassArity ==
    Program(<<ClassStmt("K", NoNode,
                <<Method("init", <<"a">>, <<PrintStmt(Str("ran"))>>)>>),
              ExprStmt(CallExpr(VariableExpr("K"), <<>>))>>)

\* len();
ProgCallBuiltinArity == Program(<<ExprStmt(CallExpr(VariableExpr("len"), <<>>))>>)

\* let pa = [1, 2]; let pb = push(pa, 3); let pc = push(pb, 4);
\* let pd = rest(pb); let pe = push(pa, true);
ProgPush ==
    Program(<<VariableStmt("pa", ArrayExpr(<<Num(1), Num(2)>>)),
              VariableStmt("pb", CallExpr(VariableExpr("push"),
                                     <<VariableExpr("pa"), Num(3)>>)),
              VariableStmt("pc", CallExpr(VariableExpr("push"),
                                     <<VariableExpr("pb"), Num(4)>>)),
              VariableStmt("pd", CallExpr(VariableExpr("rest"),
                                     <<VariableExpr("pb")>>)),
              VariableStmt("pe", CallExpr(VariableExpr("push"),
                                     <<VariableExpr("pa"), LitTrue>>))>>)

EvalPrograms ==
    <<ProgBlock, ProgClosure, ProgCallG, ProgTopReturn, ProgTopBlockReturn,
      ProgNestedReturn, ProgCallF, ProgInnerReturn, ProgInitReturn, ProgInitBare,
      ProgInitNone, ProgNoInit, ProgInherit, ProgFields, ProgNoProperty,
      ProgErrorNested, ProgScope, ProgArgs, ProgLocals, ProgFact, ProgBuiltin,
      ProgBoundDirect, ProgBoundVar, ProgBoundField,
      ProgEqString, ProgNeString, ProgEqValues,
      ProgDoubleBang,
      ProgLogical,
      ProgAssignUndefined, ProgAssignInCall,
      ProgCallInstance, ProgCallFewArgs, ProgCallManyArgs, ProgCallClassArity,
      ProgCallBuiltinArity,
      ProgPush>>

MaxEvaluates == 2

\* interpreter.New(); nothing evaluated yet.
EvalInit ==
    /\ interp = New
    /\ evLast = [hist |-> <<>>, v |-> GoNil, err |-> ""]
    /\ eHeap = Idle /\ eLast = Idle
    /\ vm = Idle /\ vmStatus = Idle /\ vmProg = Idle
    /\ lx = Idle /\ px = Idle /\ repl = Idle

\* One call of Interpreter.Evaluate on the persistent interpreter; evLast
\* keeps what it returned and hist which programs were evaluated so far.
EvEvaluate ==
    /\ Len(evLast.hist) < MaxEvaluates
    /\ \E p \in DOMAIN EvalPrograms :
          LET r == Evaluate(EvalPrograms[p], [interp EXCEPT !.log = <<>>]) IN
          /\ interp' = r.st
          /\ evLast' = [hist |-> Append(evLast.hist, p), v |-> r.v, err |-> r.err]
    /\ UNCHANGED <<frontVars, envVars, vmVars>>

EvalNext == EvEvaluate

SpecEval == EvalInit /\ [][EvalNext]_vars

\* The programs evaluated so far, the last one, and the state it started in.
Ran == [i \in DOMAIN evLast.hist |-> EvalPrograms[evLast.hist[i]]]
LastRan == Ran[Len(Ran)]
Evaluated == evLast.hist /= <<>>

\* The history of the last Evaluate, and the events of one kind in it.
Log == interp.log
Events(kind) == {i \in DOMAIN Log : Log[i][1] = kind}

\* C2: the evaluator's current environment is restored on every exit path
\* of a block or function body: every executeBlock that was left (normally,
\* by a return or by a runtime error unwinding through it) left the
\* environment that was current when it was entered, and after Evaluate has
\* returned, with a value or with an error, the current environment is the
\* global one.
C2_EnvRestored ==
    Evaluated =>
        /\ interp.env = GlobalEnv
        /\ \A i \in Events("leave") : Log[i][3] = Log[i][2]
        /\ Cardinality(Events("leave")) = Cardinality(Events("enter"))

\* A runtime error raised three blocks deep (a block, a function body and
\* a block in it) and an Evaluate that returned it.
C2_Witness ==
    /\ Evaluated
    /\ LastRan = ProgErrorNested
    /\ evLast.err = "identifier not found"
    /\ Cardinality(Events("enter")) >= 3
    /\ interp.env = GlobalEnv

\* C5: a function value keeps the environment of its definition site alive
\* and shared: after gen(1) has returned, every call g(1) of the inner
\* function it returned reads and updates the a of that call of gen, so the
\* first g(1) yields 3, the second 4, and the k-th 2 + k.
C5_ClosureShared ==
    (/\ Evaluated
     /\ Ran[1] = ProgClosure
     /\ \A i \in 2..Len(Ran) : Ran[i] = ProgCallG)
        => /\ evLast.err = ""
           /\ evLast.v = Number(2 + Len(Ran))
           /\ Get(interp.envs, Get(interp.envs, GlobalEnv, "g").v.Closure, "a").v
                  = Number(Len(Ran))

\* g(1) evaluated a second time, on a later line, after gen has returned.
C5_Witness ==
    /\ Evaluated
    /\ Ran = <<ProgClosure, ProgCallG>>
    /\ evLast.v = Number(4)

\* C6: every call of a Function runs its body in a fresh environment whose
\* parent is the function's closure environment, not the caller's: the
\* environment of a call is new, encloses the closure and is used by no
\* other call; the arguments are evaluated in the caller's environment
\* (ProgArgs yields the caller's local y), a free variable resolves through
\* the definition site (ProgScope yields the global x), a local of a call is
\* not visible to the caller (ProgLocals ends in an error) nor to another
\* invocation (ProgFact multiplies by the outer n).
C6_FreshCallEnv ==
    Evaluated =>
        /\ \A i \in Events("call") :
              /\ interp.envs[Log[i][3]].Enclosing = Log[i][4]
              /\ Log[i][3] /= Log[i][5]
              /\ \A j \in Events("call") : j /= i => Log[j][3] /= Log[i][3]
        /\ LastRan = ProgScope => evLast.err = "" /\ evLast.v = Number(1)
        /\ LastRan = ProgArgs => evLast.err = "" /\ evLast.v = Number(7)
        /\ LastRan = ProgLocals => evLast.err = "identifier not found"
        /\ LastRan = ProgFact => evLast.err = "" /\ evLast.v = Number(2)

\* f called from h, whose environment holds another x than f's closure.
C6_Witness ==
    /\ Evaluated
    /\ LastRan = ProgScope
    /\ evLast.v = Number(1)
    /\ \E i \in Events("call") : Log[i][4] /= Log[i][5]

\* C7: the Return control signal is never user-visible: the value returned
\* by Evaluate never has the type tag Return.
C7_ReturnNeverVisible == evLast.v.t /= "Return"

\* C8: a return statement executed at any nesting depth of blocks, if
\* branches and while loops inside a function body ends that call at once:
\* between the return and the end of the call it was executed in, no
\* statement is executed, no loop condition is evaluated and no call is
\* made; that call yields the returned value; and the caller of that call
\* goes on (ProgInnerReturn prints "after" and yields 2).
C8_ReturnEndsCall ==
    Evaluated =>
        /\ \A i \in Events("return") :
              Log[i][2] /= 0 =>
                 \E j \in Events("callret") :
                    /\ j > i
                    /\ Log[j][2] = Log[i][2]
                    /\ Log[j][3] = Log[i][3]
                    /\ \A k \in (i + 1)..(j - 1) : Log[k][1] = "leave"
        /\ LastRan = ProgInnerReturn =>
              /\ evLast.err = "" /\ evLast.v = Number(2)
              /\ \E n \in DOMAIN interp.out : interp.out[n] = "after"
              /\ \A n \in DOMAIN interp.out : interp.out[n] /= "no"
        /\ LastRan = ProgNestedReturn => evLast.err = "" /\ evLast.v = Number(10)

\* A return inside a while loop, an if branch and two blocks of f: three
\* blocks and the body are left before the call ends.
C8_Witness ==
    /\ Evaluated
    /\ LastRan = ProgNestedReturn
    /\ evLast.v = Number(10)
    /\ \E i \in Events("return"), j \in Events("callret") :
          /\ j >= i + 5
          /\ Log[j][2] = Log[i][2]
          /\ \A k \in (i + 1)..(j - 1) : Log[k][1] = "leave"

\* C9: calling a class always yields the newly created instance of that
\* class, whatever its init returns, and init ran with this bound to that
\* instance (the x it set is a field of the instance the call yields).
C9_ClassCallYieldsInstance ==
    Evaluated =>
        /\ \A i \in Events("new") :
              /\ Log[i][3].t = "Instance"
              /\ interp.insts[Log[i][3].id].Klass = Log[i][2]
              /\ \A j \in Events("new") : j /= i => Log[j][3] /= Log[i][3]
        /\ LastRan = ProgInitReturn =>
              /\ evLast.err = "" /\ evLast.v.t = "Instance"
              /\ interp.insts[evLast.v.id].Klass.Name = "A"
              /\ interp.insts[evLast.v.id].Fields = [x \in {"x"} |-> Number(7)]
        /\ LastRan = ProgInitBare =>
              evLast.err = "" /\ evLast.v.t = "Instance"
        /\ LastRan = ProgInitNone => evLast.err = "" /\ evLast.v = Number(3)

\* init returned 5 and the class call yielded the instance.
C9_Witness ==
    /\ Evaluated
    /\ LastRan = ProgInitReturn
    /\ evLast.v.t = "Instance"
    /\ \E i \in Events("callret") : Log[i][3] = Number(5)

\* The classes declared when the n-th class declaration had been evaluated:
\* the declaration in force for a name, and whether a class or one up its
\* declared superclass chain declares the method key.
DeclaredAs(name, n) ==
    LET ds == {i \in 1..n : interp.decl[i].Name = name} IN
    IF ds = {} THEN NoNode
    ELSE interp.decl[CHOOSE i \in ds : \A j \in ds : j <= i]

RECURSIVE OnChain(_, _, _, _)
OnChain(name, key, n, fuel) ==
    LET d == DeclaredAs(name, n) IN
    IF fuel = 0 \/ d = NoNode THEN FALSE
    ELSE \/ \E m \in DOMAIN d.Methods : d.Methods[m].Name = key
         \/ /\ d.SuperClass /= NoNode
            /\ OnChain(d.SuperClass.Name, key, n, fuel - 1)

\* C10: property lookup on an instance tries its fields, the methods of its
\* class and the methods of each class up the superclass chain: a lookup
\* fails only when no class on the declared chain of the instance's class
\* declares the name, and D().m() of ProgInherit yields 1.
C10_SuperclassLookup ==
    Evaluated =>
        /\ \A i \in Events("get") :
              ~Log[i][4] =>
                 ~OnChain(interp.insts[Log[i][2].id].Klass.Name, Log[i][3],
                          Log[i][5], Log[i][5])
        /\ LastRan = ProgInherit => evLast.err = "" /\ evLast.v = Number(1)

-----------------------------------------------------------------------------
(* Bytecode (package code).  The opcode table, the operand widths and Make *)
(* are those of the language specification, section 4.4: an instruction is *)
(* its opcode byte followed by its operands, big-endian.                   *)

Op ==
    [OpConstant |-> 0, OpPop |-> 1, OpTrue |-> 2, OpFalse |-> 3, OpNil |-> 4,
     OpAdd |-> 5, OpSub |-> 6, OpMul |-> 7, OpDiv |-> 8, OpAnd |-> 9,
     OpOr |-> 10, OpEqual |-> 11, OpNotEqual |-> 12, OpGreater |-> 13,
     OpGreaterEqual |-> 14, OpBang |-> 15, OpMinus |-> 16, OpJump |-> 17,
     OpJumpNotTruthy |-> 18, OpSetGlobal |-> 19, OpGetGlobal |-> 20,
     OpSetLocal |-> 21, OpGetLocal |-> 22, OpArray |-> 23, OpCall |-> 24,
     OpReturn |-> 25, OpReturnValue |-> 26]

OperandWidths(op) ==
    IF op \in {Op.OpConstant, Op.OpJump, Op.OpJumpNotTruthy, Op.OpSetGlobal,
               Op.OpGetGlobal, Op.OpArray} THEN <<2>>
    ELSE IF op \in {Op.OpSetLocal, Op.OpGetLocal, Op.OpCall} THEN <<1>>
    ELSE <<>>

Make(op, operands) ==
    IF OperandWidths(op) = <<2>>
    THEN <<op, (operands[1] \div 256) % 256, operands[1] % 256>>
    ELSE IF OperandWidths(op) = <<1>> THEN <<op, operands[1] % 256>>
    ELSE <<op>>

\* ins[at] and the operands read at ins[at:], positions counted from 0.
ByteAt(ins, at) == ins[at + 1]
ReadUint16(ins, at) == ByteAt(ins, at) * 256 + ByteAt(ins, at + 1)
ReadUint8(ins, at) == ByteAt(ins, at)

\* valuer.CompiledFunction {Instructions, NumLocals, NumParameters}.
CompiledFunction(instructions, numLocals, numParameters) ==
    [t |-> "CompiledFunction", Instructions |-> instructions,
     NumLocals |-> numLocals, NumParameters |-> numParameters]

\* The symbol table: a name gets the next unused index when it is defined.
NewSymbolTable == [store |-> EmptyValues, numDefinitions |-> 0]
SymbolDefine(s, name) ==
    [store |-> [n \in DOMAIN s.store \cup {name} |->
                   IF n = name THEN s.numDefinitions ELSE s.store[n]],
     numDefinitions |-> s.numDefinitions + 1]
SymbolResolve(s, name) ==
    IF name \in DOMAIN s.store THEN [Index |-> s.store[name], ok |-> TRUE]
    ELSE [Index |-> 0, ok |-> FALSE]

-----------------------------------------------------------------------------
(* The Compiler (src/compiler/compiler.go).  c holds the compilation       *)
(* scopes (the last one is current), the constants, the symbol table and   *)
(* err, the error Compile returned ("" for nil).                           *)

\* The token literal of an operator, the AST keeping its token type.
OperatorLiteral(type) ==
    IF type = "Or" THEN "or" ELSE IF type = "And" THEN "and" ELSE type

EmittedInstruction(op, pos) == [Opcode |-> op, Position |-> pos]
CompilationScope ==
    [instructions |-> <<>>, lastInstruction |-> EmittedInstruction(0, 0),
     previousInstruction |-> EmittedInstruction(0, 0)]

NewCompiler ==
    [scopes |-> <<CompilationScope>>, constants |-> <<>>,
     symbolTable |-> NewSymbolTable, err |-> ""]

scopeIndex(c) == Len(c.scopes)
currentInstructions(c) == c.scopes[scopeIndex(c)].instructions
lastInstruction(c) == c.scopes[scopeIndex(c)].lastInstruction

addInstruction(c, ins) ==
    [c EXCEPT !.scopes[scopeIndex(c)].instructions = @ \o ins]

setLastInstruction(c, op, pos) ==
    [c EXCEPT !.scopes[scopeIndex(c)].previousInstruction =
                  c.scopes[scopeIndex(c)].lastInstruction,
              !.scopes[scopeIndex(c)].lastInstruction = EmittedInstruction(op, pos)]

\* emit: the position of the instruction is lastInstruction(c).Position of
\* the compiler it yields.
emit(c, op, operands) ==
    setLastInstruction(addInstruction(c, Make(op, operands)), op,
                       Len(currentInstructions(c)))

addConstant(c, value) == [c EXCEPT !.constants = Append(@, value)]

emitLiteral(c, value) ==
    IF value.t = "Boolean"
    THEN IF value.v THEN emit(c, Op.OpTrue, <<>>) ELSE emit(c, Op.OpFalse, <<>>)
    ELSE IF value.t = "Nil" THEN emit(c, Op.OpNil, <<>>)
    ELSE emit(addConstant(c, value), Op.OpConstant, <<Len(c.constants)>>)

lastInstructionIsPop(c) == lastInstruction(c).Opcode = Op.OpPop

lastInstructionIs(c, op) ==
    IF Len(currentInstructions(c)) = 0 THEN FALSE
    ELSE lastInstruction(c).Opcode = op

removeLastPop(c) ==
    [c EXCEPT !.scopes[scopeIndex(c)].instructions =
                  SubSeq(@, 1, lastInstruction(c).Position),
              !.scopes[scopeIndex(c)].lastInstruction =
                  c.scopes[scopeIndex(c)].previousInstruction]

replaceInstruction(c, pos, newInstruction) ==
    [c EXCEPT !.scopes[scopeIndex(c)].instructions =
        [i \in DOMAIN @ |->
            IF i - 1 >= pos /\ i - 1 < pos + Len(newInstruction)
            THEN newInstruction[i - pos] ELSE @[i]]]

changeOperand(c, opPos, operand) ==
    replaceInstruction(c, opPos,
        Make(ByteAt(currentInstructions(c), opPos), <<operand>>))

enterScope(c) == [c EXCEPT !.scopes = Append(@, CompilationScope)]
leaveScope(c) == [c EXCEPT !.scopes = SubSeq(@, 1, Len(@) - 1)]

replaceLastPopWithReturn(c) ==
    [replaceInstruction(c, lastInstruction(c).Position, Make(Op.OpReturnValue, <<>>))
        EXCEPT !.scopes[scopeIndex(c)].lastInstruction.Opcode = Op.OpReturnValue]

\* literalToValue: [v, err].
literalToValue(literal) ==
    IF literal.Type = "String" THEN [v |-> String(literal.Literal), err |-> ""]
    ELSE IF literal.Type = "Number"
         THEN IF ParseFloat(literal.Literal).err /= ""
              THEN [v |-> GoNil, err |-> ParseFloat(literal.Literal).err]
              ELSE [v |-> Number(ParseFloat(literal.Literal).v), err |-> ""]
    ELSE IF literal.Type = "Nil" THEN [v |-> NilV, err |-> ""]
    ELSE IF literal.Type = "True" THEN [v |-> True, err |-> ""]
    ELSE IF literal.Type = "False" THEN [v |-> False, err |-> ""]
    ELSE [v |-> GoNil, err |-> "invalid token"]

Failing(c, msg) == [c EXCEPT !.err = msg]

RECURSIVE Compile(_, _)
RECURSIVE compileAll(_, _, _)

\* for _, s := range nodes { err := c.Compile(s); if err != nil { return err } }
\* after its first n nodes.
compileAll(nodes, n, c) ==
    IF n = 0 THEN c
    ELSE LET done == compileAll(nodes, n - 1, c) IN
         IF done.err /= "" THEN done ELSE Compile(nodes[n], done)

compileLogical(node, c) ==
    LET left == Compile(node.Left, c) IN
    IF left.err /= "" THEN left ELSE
    LET right == Compile(node.Right, left) IN
    IF right.err /= "" THEN right
    ELSE IF OperatorLiteral(node.Operator) = "or" THEN emit(right, Op.OpOr, <<>>)
    ELSE IF OperatorLiteral(node.Operator) = "and" THEN emit(right, Op.OpAnd, <<>>)
    ELSE Failing(right, "unknown operator")

compileBinary(node, c) ==
    IF OperatorLiteral(node.Operator) \in {"<", "<="}
    THEN LET right == Compile(node.Right, c) IN
         IF right.err /= "" THEN right ELSE
         LET left == Compile(node.Left, right) IN
         IF left.err /= "" THEN left
         ELSE IF OperatorLiteral(node.Operator) = "<"
              THEN emit(left, Op.OpGreater, <<>>)
              ELSE emit(left, Op.OpGreaterEqual, <<>>)
    ELSE LET left == Compile(node.Left, c) IN
         IF left.err /= "" THEN left ELSE
         LET right == Compile(node.Right, left)
             operator == OperatorLiteral(node.Operator)
         IN IF right.err /= "" THEN right
            ELSE IF operator = "+" THEN emit(right, Op.OpAdd, <<>>)
            ELSE IF operator = "*" THEN emit(right, Op.OpMul, <<>>)
            ELSE IF operator = "/" THEN emit(right, Op.OpDiv, <<>>)
            ELSE IF operator = "-" THEN emit(right, Op.OpSub, <<>>)
            ELSE IF operator = ">" THEN emit(right, Op.OpGreater, <<>>)
            ELSE IF operator = ">=" THEN emit(right, Op.OpGreaterEqual, <<>>)
            ELSE IF operator = "==" THEN emit(right, Op.OpEqual, <<>>)
            ELSE IF operator = "!=" THEN emit(right, Op.OpNotEqual, <<>>)
            ELSE Failing(right, "unknown operator")

compileUnary(node, c) ==
    LET right == Compile(node.Right, c) IN
    IF right.err /= "" THEN right
    ELSE IF OperatorLiteral(node.Operator) = "!" THEN emit(right, Op.OpBang, <<>>)
    ELSE IF OperatorLiteral(node.Operator) = "-" THEN emit(right, Op.OpMinus, <<>>)
    ELSE Failing(right, "unknown operator")

compileLiteral(node, c) ==
    IF literalToValue(node).err /= "" THEN Failing(c, literalToValue(node).err)
    ELSE emitLiteral(c, literalToValue(node).v)

compileIf(node, c) ==
    LET condition == Compile(node.Condition, c) IN
    IF condition.err /= "" THEN condition ELSE
    LET jumpNotTruthy == emit(condition, Op.OpJumpNotTruthy, <<9999>>)
        jumpNotTruthyPos == lastInstruction(jumpNotTruthy).Position
        consequence == Compile(node.ThenBranch, jumpNotTruthy)
    IN IF consequence.err /= "" THEN consequence ELSE
       LET stripped == IF lastInstructionIsPop(consequence)
                       THEN removeLastPop(consequence) ELSE consequence
           jump == emit(stripped, Op.OpJump, <<9999>>)
           jumpPos == lastInstruction(jump).Position
           patched == changeOperand(jump, jumpNotTruthyPos,
                                    Len(currentInstructions(jump)))
           alternative == IF node.ElseBranch = NoNode
                          THEN emit(patched, Op.OpNil, <<>>)
                          ELSE Compile(node.ElseBranch, patched)
       IN IF alternative.err /= "" THEN alternative
          ELSE LET last == IF node.ElseBranch /= NoNode
                              /\ lastInstructionIsPop(alternative)
                           THEN removeLastPop(alternative) ELSE alternative
               IN changeOperand(last, jumpPos, Len(currentInstructions(last)))

compileVariableStmt(node, c) ==
    LET value == IF node.Initializer /= NoNode THEN Compile(node.Initializer, c)
                 ELSE emit(c, Op.OpNil, <<>>)
    IN IF value.err /= "" THEN value
       ELSE emit([value EXCEPT !.symbolTable = SymbolDefine(@, node.Ident)],
                 Op.OpSetGlobal, <<value.symbolTable.numDefinitions>>)

compileVariableExpr(node, c) ==
    IF ~SymbolResolve(c.symbolTable, node.Name).ok
    THEN Failing(c, "undefined variable")
    ELSE emit(c, Op.OpGetGlobal, <<SymbolResolve(c.symbolTable, node.Name).Index>>)

compileArray(node, c) ==
    LET elements == compileAll(node.Elements, Len(node.Elements), c) IN
    IF elements.err /= "" THEN elements
    ELSE emit(elements, Op.OpArray, <<Len(node.Elements)>>)

\* for _, p := range node.Params { c.symbolTable.Define(p.Name) }
RECURSIVE defineParams(_, _, _)
defineParams(params, n, s) ==
    IF n = 0 THEN s ELSE SymbolDefine(defineParams(params, n - 1, s), params[n])

compileFunction(node, c) ==
    LET entered == [enterScope(c) EXCEPT
                       !.symbolTable = defineParams(node.Params, Len(node.Params), @)]
        body == Compile(Program(node.Body), entered)
    IN IF body.err /= "" THEN body ELSE
       LET returned == IF lastInstructionIs(body, Op.OpPop)
                       THEN replaceLastPopWithReturn(body) ELSE body
           ended == IF ~lastInstructionIs(returned, Op.OpReturnValue)
                    THEN emit(returned, Op.OpReturn, <<>>) ELSE returned
           compiledFn == CompiledFunction(currentInstructions(ended), 0, 0)
           left == addConstant(leaveScope(ended), compiledFn)
           constant == emit(left, Op.OpConstant, <<Len(left.constants) - 1>>)
       IN emit([constant EXCEPT !.symbolTable = SymbolDefine(@, node.Name)],
               Op.OpSetGlobal, <<constant.symbolTable.numDefinitions>>)

compileReturn(node, c) ==
    LET value == Compile(node.Value, c) IN
    IF value.err /= "" THEN value ELSE emit(value, Op.OpReturnValue, <<>>)

compileCall(node, c) ==
    LET callee == Compile(node.Callee, c) IN
    IF callee.err /= "" THEN callee ELSE
    LET arguments == compileAll(node.Arguments, Len(node.Arguments), callee) IN
    IF arguments.err /= "" THEN arguments
    ELSE emit(arguments, Op.OpCall, <<Len(node.Arguments)>>)

\* The type switch of Compile: a node of any other type compiles to nothing
\* and to no error.
Compile(node, c) ==
    CASE node.k = "Program" -> compileAll(node.Statements, Len(node.Statements), c)
      [] node.k = "GroupingExpr" -> Compile(node.Expression, c)
      [] node.k = "ExprStmt" ->
           LET expression == Compile(node.Expression, c) IN
           IF expression.err /= "" THEN expression
           ELSE emit(expression, Op.OpPop, <<>>)
      [] node.k = "LogicalExpr" -> compileLogical(node, c)
      [] node.k = "BinaryExpr" -> compileBinary(node, c)
      [] node.k = "UnaryExpr" -> compileUnary(node, c)
      [] node.k = "Literal" -> compileLiteral(node, c)
      [] node.k = "IfStmt" -> compileIf(node, c)
      [] node.k = "BlockStmt" -> compileAll(node.Statements, Len(node.Statements), c)
      [] node.k = "VariableStmt" -> compileVariableStmt(node, c)
      [] node.k = "VariableExpr" -> compileVariableExpr(node, c)
      [] node.k = "ArrayExpr" -> compileArray(node, c)
      [] node.k = "FunctionStmt" -> compileFunction(node, c)
      [] node.k = "ReturnStmt" -> compileReturn(node, c)
      [] node.k = "CallExpr" -> compileCall(node, c)
      [] OTHER -> c

\* Compiler.Bytecode after New().Compile(program).
Bytecode(c) == [Instructions |-> currentInstructions(c), Constants |-> c.constants]

-----------------------------------------------------------------------------
(* The VM (src/vm/vm.go).  A machine m holds sp, framesIndex, the constants *)
(* and the written prefixes of its zero-initialised arrays stack, globals   *)
(* and frames (a slot beyond the prefix holds nil).  Positions count from   *)
(* 0 as in the Go code.  m.fault is "" while Run goes on, "error" when a    *)
(* step made Run return an error and "panic" when it made the Go runtime    *)
(* panic (index out of range, nil dereference); m.underflow records that    *)
(* pop read below the bottom of the stack.                                  *)

StackSize == 2048
MaxFrames == 1024

SlotAt(slots, i) == IF i + 1 \in DOMAIN slots THEN slots[i + 1] ELSE GoNil
SlotSet(slots, i, v) ==
    [j \in 1..(IF i + 1 > Len(slots) THEN i + 1 ELSE Len(slots)) |->
        IF j = i + 1 THEN v ELSE SlotAt(slots, j - 1)]

Fault(m, kind, msg) == [m EXCEPT !.fault = kind, !.msg = msg]

NewFrame(fn, basePointer) == [fn |-> fn, ip |-> -1, basePointer |-> basePointer]

\* vm.New(bytecode)
NewVM(bytecode) ==
    [constants |-> bytecode.Constants, stack |-> <<>>, sp |-> 0, globals |-> <<>>,
     frames |-> <<NewFrame(CompiledFunction(bytecode.Instructions, 0, 0), 0)>>,
     framesIndex |-> 1, fault |-> "", msg |-> "", underflow |-> FALSE,
     bangs |-> <<>>]

currentFrame(m) == SlotAt(m.frames, m.framesIndex - 1)

push(m, v) ==
    IF m.fault /= "" THEN m
    ELSE IF m.sp >= StackSize THEN Fault(m, "error", "stack overflow")
    ELSE IF m.sp < 0 THEN Fault(m, "panic", "index out of range")
    ELSE [m EXCEPT !.stack = SlotSet(@, m.sp, v), !.sp = @ + 1]

\* pop: the machine after it; the value it returns is StackTop of the
\* machine before it.
StackTop(m) == SlotAt(m.stack, m.sp - 1)
pop(m) ==
    IF m.fault /= "" THEN m
    ELSE IF m.sp - 1 < 0
         THEN [Fault(m, "panic", "index out of range") EXCEPT !.underflow = TRUE]
    ELSE [m EXCEPT !.sp = @ - 1]

LastPoppedStackElem(m) == SlotAt(m.stack, m.sp)

pushFrame(m, f) ==
    IF m.framesIndex >= MaxFrames THEN Fault(m, "panic", "index out of range")
    ELSE [m EXCEPT !.frames = SlotSet(@, m.framesIndex, f), !.framesIndex = @ + 1]

\* popFrame: the machine after it; the frame it returns is currentFrame of
\* the machine before it.
popFrame(m) ==
    IF m.fault /= "" THEN m
    ELSE IF m.framesIndex - 1 < 0 THEN Fault(m, "panic", "index out of range")
    ELSE [m EXCEPT !.framesIndex = @ - 1]

nativeBoolToBooleanObject(input) == IF input THEN True ELSE False

\* Value.Val(): the Go value a valuer.Value wraps (language specification,
\* section 4.6: compared by raw underlying representation).
Val(v) == IF v.t \in {"Boolean", "Number", "String"} THEN v.v ELSE v
ValEqual(a, b) == a.t = b.t /\ Val(a) = Val(b)

vmIsTruthy(val) ==
    IF val.t = "Boolean" THEN val.v
    ELSE IF val.t = "Nil" THEN FALSE
    ELSE TRUE

\* executeBinaryOperation with executeBinaryNumberOperation,
\* executeLogicalOperation and executeBinaryStringOperation.
executeBinaryOperation(m, op) ==
    LET right == StackTop(m)
        left == StackTop(pop(m))
        popped == pop(pop(m))
    IN IF popped.fault /= "" THEN popped
       ELSE IF left = GoNil \/ right = GoNil
            THEN Fault(popped, "panic", "nil pointer dereference")
       ELSE IF left.t = "Number" /\ right.t = "Number"
            THEN IF op = Op.OpAdd THEN push(popped, Number(left.v + right.v))
                 ELSE IF op = Op.OpSub THEN push(popped, Number(left.v - right.v))
                 ELSE IF op = Op.OpMul THEN push(popped, Number(left.v * right.v))
                 ELSE IF op = Op.OpDiv THEN push(popped, Number(NumDiv(left.v, right.v)))
                 ELSE Fault(popped, "error", "unknown integer operator")
       ELSE IF left.t = "Boolean" /\ right.t = "Boolean"
            THEN IF op = Op.OpAnd THEN push(popped, toBoolanValue(left.v /\ right.v))
                 ELSE IF op = Op.OpOr THEN push(popped, toBoolanValue(left.v \/ right.v))
                 ELSE Fault(popped, "error", "unknown integer operator")
       ELSE IF left.t = "String" /\ right.t = "String"
            THEN IF op /= Op.OpAdd THEN Fault(popped, "error", "unknown string operator")
                 ELSE push(popped, String(left.v \o right.v))
       ELSE Fault(popped, "error", "unsupported types for binary operation")

\* executeComparison with executeNumberComparison.
executeComparison(m, op) ==
    LET right == StackTop(m)
        left == StackTop(pop(m))
        popped == pop(pop(m))
    IN IF popped.fault /= "" THEN popped
       ELSE IF left = GoNil \/ right = GoNil
            THEN Fault(popped, "panic", "nil pointer dereference")
       ELSE IF left.t = "Number" /\ right.t = "Number"
            THEN IF op = Op.OpEqual
                 THEN push(popped, nativeBoolToBooleanObject(right.v = left.v))
                 ELSE IF op = Op.OpNotEqual
                 THEN push(popped, nativeBoolToBooleanObject(right.v /= left.v))
                 ELSE IF op = Op.OpGreater
                 THEN push(popped, nativeBoolToBooleanObject(left.v > right.v))
                 ELSE IF op = Op.OpGreaterEqual
                 THEN push(popped, nativeBoolToBooleanObject(left.v >= right.v))
                 ELSE Fault(popped, "error", "unknown operator")
       ELSE IF op = Op.OpEqual
            THEN push(popped, nativeBoolToBooleanObject(ValEqual(right, left)))
       ELSE IF op = Op.OpNotEqual
            THEN push(popped, nativeBoolToBooleanObject(~ValEqual(right, left)))
       ELSE Fault(popped, "error", "unknown operator")

\* executeBangOperator; m.bangs keeps the operand and the result of each
\* OpBang executed.
executeBangOperator(m) ==
    LET operand == StackTop(m)
        popped == pop(m)
        result == IF operand.t = "Boolean" /\ operand.v THEN False
                  ELSE IF operand.t = "Boolean" /\ ~operand.v THEN True
                  ELSE False
    IN IF popped.fault /= "" THEN popped
       ELSE IF operand = GoNil THEN Fault(popped, "panic", "nil pointer dereference")
       ELSE push([popped EXCEPT !.bangs = Append(@, [operand |-> operand,
                                                      result |-> result])],
                 result)

executeMinusOperator(m) ==
    LET operand == StackTop(m)
        popped == pop(m)
    IN IF popped.fault /= "" THEN popped
       ELSE IF operand = GoNil THEN Fault(popped, "panic", "nil pointer dereference")
       ELSE IF operand.t /= "Number"
            THEN Fault(popped, "error", "unsupported type for negation")
       ELSE push(popped, Number(-operand.v))

\* buildArray(startIndex, endIndex): the elements, when the indices are in
\* the stack.
buildArray(m, startIndex, endIndex) ==
    Array(0, [i \in 1..(endIndex - startIndex) |-> SlotAt(m.stack, startIndex + i - 1)])

\* A plausible slip: the frame's base pointer is sp, above the arguments.
vmCallFunctionAbove(m, numArgs) ==
    LET fn == SlotAt(m.stack, m.sp - 1 - numArgs) IN
    IF m.sp - 1 - numArgs < 0 THEN Fault(m, "panic", "index out of range")
    ELSE IF fn.t /= "CompiledFunction" THEN Fault(m, "error", "calling non-function")
    ELSE IF numArgs /= fn.NumParameters
         THEN Fault(m, "error", "wrong number of arguments")
    ELSE LET framed == pushFrame(m, NewFrame(fn, m.sp)) IN
         IF framed.fault /= "" THEN framed
         ELSE [framed EXCEPT !.sp = m.sp + fn.NumLocals]

\* callFunction of the VM.
vmCallFunction(m, numArgs) ==
    LET fn == SlotAt(m.stack, m.sp - 1 - numArgs) IN
    IF m.sp - 1 - numArgs < 0 THEN Fault(m, "panic", "index out of range")
    ELSE IF fn.t /= "CompiledFunction" THEN Fault(m, "error", "calling non-function")
    ELSE IF numArgs /= fn.NumParameters
         THEN Fault(m, "error", "wrong number of arguments")
    ELSE LET framed == pushFrame(m, NewFrame(fn, m.sp - numArgs)) IN
         IF framed.fault /= "" THEN framed
         ELSE [framed EXCEPT !.sp = (m.sp - numArgs) + fn.NumLocals]

-----------------------------------------------------------------------------
(* SpecVM: a program is compiled, a VM is built from the bytecode and Run   *)
(* executes it, one action per turn of its fetch loop.  Every state whose   *)
(* vmStatus is "running" is a fetch boundary: the loop condition is what    *)
(* is evaluated next.                                                       *)

VMPrograms == <<
    \* 1   1 + 2 * 3;
    Program(<<ExprStmt(BinaryExpr(Num(1), "+", BinaryExpr(Num(2), "*", Num(3))))>>),
    \* 2   !true == false;
    Program(<<ExprStmt(BinaryExpr(UnaryExpr("!", LitTrue), "==", LitFalse))>>),
    \* 3   -5 < 3;
    Program(<<ExprStmt(BinaryExpr(UnaryExpr("-", Num(5)), "<", Num(3)))>>),
    \* 4   true and false;
    Program(<<ExprStmt(LogicalExpr(LitTrue, "And", LitFalse))>>),
    \* 5   "a" + "b";
    Program(<<ExprStmt(BinaryExpr(Str("a"), "+", Str("b")))>>),
    \* 6   let a = 5; a;
    Program(<<VariableStmt("a", Num(5)), ExprStmt(VariableExpr("a"))>>),
    \* 7   if (1 < 2) { 10; } else { 20; }
    Program(<<IfStmt(BinaryExpr(Num(1), "<", Num(2)),
                     BlockStmt(<<ExprStmt(Num(10))>>),
                     BlockStmt(<<ExprStmt(Num(20))>>))>>),
    \* 8   if (false) { 10; }  1;
    Program(<<IfStmt(LitFalse, BlockStmt(<<ExprStmt(Num(10))>>), NoNode),
              ExprStmt(Num(1))>>),
    \* 9   [1, 2 + 3];
    Program(<<ExprStmt(ArrayExpr(<<Num(1), BinaryExpr(Num(2), "+", Num(3))>>))>>),
    \* 10  fn f() { return 7; }  f();
    Program(<<FunctionStmt("f", <<>>, <<ReturnStmt(Num(7))>>),
              ExprStmt(CallExpr(VariableExpr("f"), <<>>))>>),
    \* 11  fn g() { let a = 1; }  g();
    Program(<<FunctionStmt("g", <<>>, <<VariableStmt("a", Num(1))>>),
              ExprStmt(CallExpr(VariableExpr("g"), <<>>))>>),
    \* 12  fn f() { 5; }  f();
    Program(<<FunctionStmt("f", <<>>, <<ExprStmt(Num(5))>>),
              ExprStmt(CallExpr(VariableExpr("f"), <<>>))>>),
    \* 13  if (true) { 10; }
    Program(<<IfStmt(LitTrue, BlockStmt(<<ExprStmt(Num(10))>>), NoNode)>>),
    \* 14  let a = 5;
    Program(<<VariableStmt("a", Num(5))>>),
    \* 15  return 1;
    Program(<<ReturnStmt(Num(1))>>),
    \* 16  let a = 1; a = 2;
    Program(<<VariableStmt("a", Num(1)), ExprStmt(AssignExpr("a", Num(2)))>>),
    \* 17  fn f(a) { a; }  f(1);
    Program(<<FunctionStmt("f", <<"a">>, <<ExprStmt(VariableExpr("a"))>>),
              ExprStmt(CallExpr(VariableExpr("f"), <<Num(1)>>))>>),
    \* 18  b;
    Program(<<ExprStmt(VariableExpr("b"))>>),
    \* 19  1 or 2;
    Program(<<ExprStmt(LogicalExpr(Num(1), "Or", Num(2)))>>),
    \* 20  return;
    Program(<<ReturnStmt(NoNode)>>),
    \* 21  fn f() { return 7; }  1 + f() * 2;
    Program(<<FunctionStmt("f", <<>>, <<ReturnStmt(Num(7))>>),
              ExprStmt(BinaryExpr(Num(1), "+",
                  BinaryExpr(CallExpr(VariableExpr("f"), <<>>), "*", Num(2))))>>),
    \* 22  -true;
    Program(<<ExprStmt(UnaryExpr("-", LitTrue))>>),
    \* 23  fn f() { g(); }  fn g() { return 1; }  f();
    Program(<<FunctionStmt("f", <<>>, <<ExprStmt(CallExpr(VariableExpr("g"), <<>>))>>),
              FunctionStmt("g", <<>>, <<ReturnStmt(Num(1))>>),
              ExprStmt(CallExpr(VariableExpr("f"), <<>>))>>),
    \* 24  fn g() { return 1; }  fn f() { return g() + 1; }  f();
    Program(<<FunctionStmt("g", <<>>, <<ReturnStmt(Num(1))>>),
              FunctionStmt("f", <<>>,
                  <<ReturnStmt(BinaryExpr(CallExpr(VariableExpr("g"), <<>>), "+", Num(1)))>>),
              ExprStmt(CallExpr(VariableExpr("f"), <<>>))>>),
    \* 25  !!nil;
    Program(<<ExprStmt(UnaryExpr("!", UnaryExpr("!", LitNil)))>>),
    \* 26  !!0; !!false; !!"a"; !!true;
    Program(<<ExprStmt(UnaryExpr("!", UnaryExpr("!", Num(0)))),
              ExprStmt(UnaryExpr("!", UnaryExpr("!", LitFalse))),
              ExprStmt(UnaryExpr("!", UnaryExpr("!", Str("a")))),
              ExprStmt(UnaryExpr("!", UnaryExpr("!", LitTrue)))>>),
    \* 27  if (nil) { 1; } else { 2; } 3;
    Program(<<IfStmt(LitNil, BlockStmt(<<ExprStmt(Num(1))>>),
                     BlockStmt(<<ExprStmt(Num(2))>>)),
              ExprStmt(Num(3))>>),
    \* 28  fn f(a) { return 1; }  f();
    Program(<<FunctionStmt("f", <<"a">>, <<ReturnStmt(Num(1))>>),
              ExprStmt(CallExpr(VariableExpr("f"), <<>>))>>),
    \* 29  let a = 1; a();
    Program(<<VariableStmt("a", Num(1)),
              ExprStmt(CallExpr(VariableExpr("a"), <<>>))>>),
    \* 30  fn f(a, b) { return 2; }  f(1, 2);
    Program(<<FunctionStmt("f", <<"a", "b">>, <<ReturnStmt(Num(2))>>),
              ExprStmt(CallExpr(VariableExpr("f"), <<Num(1), Num(2)>>))>>),
    \* 31  if (true) { let a = 1; }
    Program(<<IfStmt(LitTrue, BlockStmt(<<VariableStmt("a", Num(1))>>), NoNode)>>),
    \* 32  if (false) { 10; }
    Program(<<IfStmt(LitFalse, BlockStmt(<<ExprStmt(Num(10))>>), NoNode)>>),
    \* 33  if (nil) { 1; } else { }
    Program(<<IfStmt(LitNil, BlockStmt(<<ExprStmt(Num(1))>>), BlockStmt(<<>>))>>),
    \* 34  if (1 < 2) { 1; 2; } else { 3; }
    Program(<<IfStmt(BinaryExpr(Num(1), "<", Num(2)),
                     BlockStmt(<<ExprStmt(Num(1)), ExprStmt(Num(2))>>),
                     BlockStmt(<<ExprStmt(Num(3))>>))>>),
    \* 35  fn g() { return; }  g();
    Program(<<FunctionStmt("g", <<>>, <<ReturnStmt(NoNode)>>),
              ExprStmt(CallExpr(VariableExpr("g"), <<>>))>>),
    \* 36  if (true) { if (true) { } else { a = 2; a = 3; } }
    Program(<<IfStmt(LitTrue,
                     BlockStmt(<<IfStmt(LitTrue, BlockStmt(<<>>),
                                        BlockStmt(<<ExprStmt(AssignExpr("a", Num(2))),
                                                    ExprStmt(AssignExpr("a", Num(3)))>>))>>),
                     NoNode)>>),
    \* 37  if (false) { 1; } else { if (true) { 2; } else { 3; } }
    Program(<<IfStmt(LitFalse, BlockStmt(<<ExprStmt(Num(1))>>),
                     BlockStmt(<<IfStmt(LitTrue, BlockStmt(<<ExprStmt(Num(2))>>),
                                        BlockStmt(<<ExprStmt(Num(3))>>))>>))>>)
>>

\* Bytecode handed to vm.New as it is, with functions that declare
\* parameters and locals (the compiler builds none):
\*   1   main: fn(1, 2);            fn(a, b): return a + b
\*   2   main: 5; fn(1); pop; pop   fn(a): local b = a; return
\*   3   main: 5; outer(2);         outer(a): return fn(a, a)
AsmAdd ==
    CompiledFunction(Make(Op.OpGetLocal, <<0>>) \o Make(Op.OpGetLocal, <<1>>)
                     \o Make(Op.OpAdd, <<>>) \o Make(Op.OpReturnValue, <<>>), 2, 2)
AsmLocal ==
    CompiledFunction(Make(Op.OpGetLocal, <<0>>) \o Make(Op.OpSetLocal, <<1>>)
                     \o Make(Op.OpReturn, <<>>), 2, 1)
AsmOuter ==
    CompiledFunction(Make(Op.OpConstant, <<2>>) \o Make(Op.OpGetLocal, <<0>>)
                     \o Make(Op.OpGetLocal, <<0>>) \o Make(Op.OpCall, <<2>>)
                     \o Make(Op.OpReturnValue, <<>>), 1, 1)
Assembled == <<
    [Instructions |-> Make(Op.OpConstant, <<2>>) \o Make(Op.OpConstant, <<0>>)
                      \o Make(Op.OpConstant, <<1>>) \o Make(Op.OpCall, <<2>>)
                      \o Make(Op.OpPop, <<>>),
     Constants |-> <<Number(1), Number(2), AsmAdd>>],
    [Instructions |-> Make(Op.OpConstant, <<0>>) \o Make(Op.OpConstant, <<2>>)
                      \o Make(Op.OpConstant, <<1>>) \o Make(Op.OpCall, <<1>>)
                      \o Make(Op.OpPop, <<>>) \o Make(Op.OpPop, <<>>),
     Constants |-> <<Number(5), Number(1), AsmLocal>>],
    [Instructions |-> Make(Op.OpConstant, <<0>>) \o Make(Op.OpConstant, <<3>>)
                      \o Make(Op.OpConstant, <<1>>) \o Make(Op.OpCall, <<1>>)
                      \o Make(Op.OpPop, <<>>),
     Constants |-> <<Number(5), Number(2), AsmAdd, AsmOuter>>]
>>

\* Nothing compiled yet.
VMInit ==
    /\ vm = Idle /\ vmStatus = "idle" /\ vmProg = 0
    /\ eHeap = Idle /\ eLast = Idle
    /\ interp = Idle /\ evLast = Idle
    /\ lx = Idle /\ px = Idle /\ repl = Idle

\* compiler.New().Compile(program), then vm.New(comp.Bytecode()); a program
\* Compile returns an error for is rejected and never runs.
VmLoad ==
    /\ vmStatus = "idle"
    /\ \E p \in DOMAIN VMPrograms :
          LET c == Compile(VMPrograms[p], NewCompiler) IN
          /\ vmProg' = p
          /\ IF c.err /= ""
             THEN vm' = Idle /\ vmStatus' = "rejected"
             ELSE vm' = NewVM(Bytecode(c)) /\ vmStatus' = "running"
    /\ UNCHANGED <<frontVars, envVars, evalVars>>

\* vm.New on assembled bytecode; vmProg is minus its number.
VmLoadAssembled ==
    /\ vmStatus = "idle"
    /\ \E a \in DOMAIN Assembled :
          /\ vmProg' = 0 - a
          /\ vm' = NewVM(Assembled[a])
          /\ vmStatus' = "running"
    /\ UNCHANGED <<frontVars, envVars, evalVars>>

\* The loop condition of Run, and what one turn reads after vm.currentFrame().ip++.
Ins == currentFrame(vm).fn.Instructions
AtFetch ==
    /\ vmStatus = "running"
    /\ vm.framesIndex >= 1
    /\ currentFrame(vm).ip < Len(Ins) - 1
Ip == currentFrame(vm).ip + 1
Fetches(ops) == AtFetch /\ ByteAt(Ins, Ip) \in ops
Advance(m, n) == [m EXCEPT !.frames[m.framesIndex].ip = @ + n]
Fetched == Advance(vm, 1)

\* The turn ends: Run goes on to the loop condition, returns the error or
\* the goroutine panics.
Step(m) ==
    /\ vm' = m
    /\ vmStatus' = IF m.fault = "" THEN "running" ELSE m.fault
    /\ UNCHANGED <<frontVars, vmProg, envVars, evalVars>>

\* The loop condition is false: Run returns nil.
VmHalt ==
    /\ vmStatus = "running"
    /\ vm.framesIndex >= 1
    /\ ~(currentFrame(vm).ip < Len(Ins) - 1)
    /\ vmStatus' = "halted"
    /\ UNCHANGED <<frontVars, vm, vmProg, envVars, evalVars>>

VmConstant ==
    /\ Fetches({Op.OpConstant})
    /\ LET constIndex == ReadUint16(Ins, Ip + 1)
           moved == Advance(Fetched, 2)
       IN Step(IF constIndex >= Len(vm.constants)
               THEN Fault(moved, "panic", "index out of range")
               ELSE push(moved, vm.constants[constIndex + 1]))

VmPop ==
    /\ Fetches({Op.OpPop})
    /\ Step(pop(Fetched))

VmTrue ==
    /\ Fetches({Op.OpTrue})
    /\ Step(push(Fetched, True))

VmFalse ==
    /\ Fetches({Op.OpFalse})
    /\ Step(push(Fetched, False))

VmNil ==
    /\ Fetches({Op.OpNil})
    /\ Step(push(Fetched, NilV))

VmBinary ==
    /\ Fetches({Op.OpAdd, Op.OpSub, Op.OpMul, Op.OpDiv, Op.OpOr, Op.OpAnd})
    /\ Step(executeBinaryOperation(Fetched, ByteAt(Ins, Ip)))

VmComparison ==
    /\ Fetches({Op.OpEqual, Op.OpNotEqual, Op.OpGreater, Op.OpGreaterEqual})
    /\ Step(executeComparison(Fetched, ByteAt(Ins, Ip)))

VmBang ==
    /\ Fetches({Op.OpBang})
    /\ Step(executeBangOperator(Fetched))

VmMinus ==
    /\ Fetches({Op.OpMinus})
    /\ Step(executeMinusOperator(Fetched))

VmJump ==
    /\ Fetches({Op.OpJump})
    /\ Step([Fetched EXCEPT !.frames[vm.framesIndex].ip = ReadUint16(Ins, Ip + 1) - 1])

VmJumpNotTruthy ==
    /\ Fetches({Op.OpJumpNotTruthy})
    /\ LET pos == ReadUint16(Ins, Ip + 1)
           moved == Advance(Fetched, 2)
           condition == StackTop(moved)
           popped == pop(moved)
       IN Step(IF popped.fault = "" /\ ~vmIsTruthy(condition)
               THEN [popped EXCEPT !.frames[vm.framesIndex].ip = pos - 1]
               ELSE popped)

VmSetGlobal ==
    /\ Fetches({Op.OpSetGlobal})
    /\ LET globalIndex == ReadUint16(Ins, Ip + 1)
           moved == Advance(Fetched, 2)
           popped == pop(moved)
       IN Step(IF popped.fault /= "" THEN popped
               ELSE [popped EXCEPT !.globals = SlotSet(@, globalIndex, StackTop(moved))])

VmGetGlobal ==
    /\ Fetches({Op.OpGetGlobal})
    /\ LET globalIndex == ReadUint16(Ins, Ip + 1)
       IN Step(push(Advance(Fetched, 2), SlotAt(vm.globals, globalIndex)))

VmSetLocal ==
    /\ Fetches({Op.OpSetLocal})
    /\ LET localIndex == ReadUint8(Ins, Ip + 1)
           moved == Advance(Fetched, 1)
           popped == pop(moved)
       IN Step(IF popped.fault /= "" THEN popped
               ELSE [popped EXCEPT !.stack =
                        SlotSet(@, currentFrame(moved).basePointer + localIndex,
                                StackTop(moved))])

VmGetLocal ==
    /\ Fetches({Op.OpGetLocal})
    /\ LET localIndex == ReadUint8(Ins, Ip + 1)
           moved == Advance(Fetched, 1)
       IN Step(push(moved, SlotAt(vm.stack, currentFrame(moved).basePointer + localIndex)))

VmArray ==
    /\ Fetches({Op.OpArray})
    /\ LET numElements == ReadUint16(Ins, Ip + 1)
           moved == Advance(Fetched, 2)
       IN Step(IF moved.sp - numElements < 0
               THEN Fault(moved, "panic", "slice bounds out of range")
               ELSE push([moved EXCEPT !.sp = @ - numElements],
                         buildArray(moved, moved.sp - numElements, moved.sp)))

VmCall ==
    /\ Fetches({Op.OpCall})
    /\ Step(vmCallFunction(Advance(Fetched, 1), ReadUint8(Ins, Ip + 1)))

VmReturnValue ==
    /\ Fetches({Op.OpReturnValue})
    /\ LET returnValue == StackTop(Fetched)
           popped == pop(Fetched)
           frame == currentFrame(popped)
           unframed == popFrame(popped)
       IN Step(IF unframed.fault /= "" THEN unframed
               ELSE push([unframed EXCEPT !.sp = frame.basePointer - 1], returnValue))

VmReturn ==
    /\ Fetches({Op.OpReturn})
    /\ LET frame == currentFrame(Fetched)
           unframed == popFrame(Fetched)
       IN Step(IF unframed.fault /= "" THEN unframed
               ELSE push([unframed EXCEPT !.sp = frame.basePointer - 1], NilV))

VMNext ==
    \/ VmLoad \/ VmLoadAssembled \/ VmHalt \/ VmConstant \/ VmPop \/ VmTrue \/ VmFalse \/ VmNil
    \/ VmBinary \/ VmComparison \/ VmBang \/ VmMinus \/ VmJump
    \/ VmJumpNotTruthy \/ VmSetGlobal \/ VmGetGlobal \/ VmSetLocal \/ VmGetLocal
    \/ VmArray \/ VmCall
    \/ VmReturnValue \/ VmReturn

SpecVM == VMInit /\ [][VMNext]_vars

\* The value Evaluate returns and the one a halted VM gives as its last
\* popped stack element are the same value: the same Go nil, or values of
\* one type that print alike.
SameValue(a, b, insts) ==
    IF a = GoNil \/ b = GoNil THEN a = b
    ELSE a.t = b.t /\ Inspect(a, insts) = Inspect(b, insts)

\* C1: while the VM runs compiled bytecode, at every fetch boundary
\* 0 <= sp <= StackSize and 0 <= framesIndex <= MaxFrames, and (in
\* particular) no step pops the operand stack when it is empty and no
\* return sets sp below 0.
C1_StackBounds ==
    vm /= Idle =>
        /\ vmStatus = "running" =>
              /\ 0 <= vm.sp /\ vm.sp <= StackSize
              /\ 0 <= vm.framesIndex /\ vm.framesIndex <= MaxFrames
        /\ ~vm.underflow
        /\ vm.sp >= 0

\* C4: for a program both back-ends accept (Compile, Run and Evaluate all
\* return without an error), the value Evaluate returns equals the last
\* popped stack element of the VM.
C4_BackendsAgree ==
    (vmStatus = "halted" /\ vmProg \in DOMAIN VMPrograms) =>
        LET r == Evaluate(VMPrograms[vmProg], New) IN
        r.err = "" => SameValue(r.v, LastPoppedStackElem(vm), r.st.insts)

-----------------------------------------------------------------------------
(* Claims about methods, operators, assignment and calls of the evaluator   *)
(* (SpecEval).                                                              *)

\* The calls of the last Evaluate that ran a function bound by event b.
CallsOfBound(b) == {c \in Events("call") : Log[c][4] = Log[b][3]}

\* C11: a method obtained from an instance by property access is bound to
\* that instance: in every later call of it (directly, from a variable or
\* from a field of another instance) this evaluates to the instance the
\* method was retrieved from, and the fields set on that instance before
\* the call are read through this.
C11_MethodBound ==
    Evaluated =>
        /\ \A b \in Events("bind") : \A c \in CallsOfBound(b) :
              \A i \in Events("this") :
                 Log[i][3] = Log[c][2] => Log[i][2] = Log[b][2]
        /\ LastRan = ProgBoundDirect => evLast.err = "" /\ evLast.v = Number(1)
        /\ LastRan = ProgBoundVar => evLast.err = "" /\ evLast.v = Number(1)
        /\ LastRan = ProgBoundField => evLast.err = "" /\ evLast.v = Number(1)

\* The method retrieved from a is called through a field of b, after b.m of
\* another instance was retrieved: this was evaluated in the call.
C11_Witness ==
    /\ Evaluated
    /\ LastRan = ProgBoundField
    /\ evLast.v = Number(1)
    /\ \E b \in Events("bind") : \E c \in CallsOfBound(b) :
          \E i \in Events("this") :
             /\ b < c /\ c < i
             /\ Log[i][3] = Log[c][2]
             /\ Log[i][2] = Log[b][2]

\* a == b as the language defines it: by value for numbers and strings, by
\* identity for the other values, false for operands of different types.
LanguageEqual(a, b) ==
    IF a.t /= b.t THEN FALSE
    ELSE IF a.t \in {"Number", "String"} THEN a.v = b.v
    ELSE PtrEq(a, b)

\* C12: in the evaluator a == b yields a boolean and never an error
\* (numbers and strings by value, the other values by identity, different
\* types false), and a != b yields the negation of a == b.
C12_EqualityTotal ==
    Evaluated =>
        \A i \in Events("equality") :
           /\ Log[i][6] = ""
           /\ Log[i][5] = toBoolanValue((Log[i][2] = "==") <=>
                                        LanguageEqual(Log[i][3], Log[i][4]))

\* The evaluator's side of C13: in the history of the last Evaluate, a !
\* applied to the result of a ! yields true exactly when the operand of the
\* first one is truthy.
DoubleBangEvaluator ==
    Evaluated =>
        \A i \in Events("bang") :
           (i + 1 \in Events("bang") /\ Log[i + 1][2].t = "Boolean"
                                     /\ Log[i + 1][2] = Log[i][3])
              => Log[i + 1][3] = toBoolanValue(isTruthy(Log[i][2]))

\* C13: applying ! twice yields true exactly when the operand is truthy
\* (false and nil falsy, every other value truthy), in the VM: an OpBang
\* applied to the result of an OpBang pushes the truthiness, as
\* OpJumpNotTruthy sees it, of the first one's operand.
C13_DoubleBang ==
    vm /= Idle =>
        \A i \in DOMAIN vm.bangs :
           (i + 1 \in DOMAIN vm.bangs /\ vm.bangs[i + 1].operand.t = "Boolean"
                                   /\ vm.bangs[i + 1].operand = vm.bangs[i].result)
              => vm.bangs[i + 1].result =
                    nativeBoolToBooleanObject(vmIsTruthy(vm.bangs[i].operand))

\* What standard output holds after ProgLogical on a new interpreter: each
\* call announces its callee, then l and r print.
LogicalOutput ==
    <<"called <fn left>", "l", "called <fn right>", "r", "false",
      "called <fn left>", "l", "called <fn right>", "r", "true",
      "called <fn left>", "l", "called <fn right>", "r", "false",
      "called <fn left>", "l", "called <fn right>", "r">>

\* The lines the last Evaluate added to standard output.
LastOutput ==
    SubSeq(interp.out, Len(interp.out) - Len(LogicalOutput) + 1, Len(interp.out))

\* C14: and / or are eager in the evaluator: the left operand and then the
\* right operand are both evaluated, with their side effects, whatever the
\* left operand is, and the result is the Boolean truthy(left) AND
\* truthy(right), respectively truthy(left) OR truthy(right), never an
\* operand.
C14_LogicalEager ==
    Evaluated =>
        /\ \A i \in Events("logical") :
              /\ Log[i][5].t = "Boolean"
              /\ Log[i][2] = "And" =>
                    Log[i][5].v = (isTruthy(Log[i][3]) /\ isTruthy(Log[i][4]))
              /\ Log[i][2] = "Or" =>
                    Log[i][5].v = (isTruthy(Log[i][3]) \/ isTruthy(Log[i][4]))
        /\ LastRan = ProgLogical =>
              /\ evLast.err = "" /\ evLast.v.t = "Boolean" /\ evLast.v.v
              /\ Cardinality(Events("logical")) = 4
              /\ Len(interp.out) >= Len(LogicalOutput)
              /\ LastOutput = LogicalOutput

\* l(false) and r(5) ran r although the left operand is false, and
\* l(7) or r(nil) ran r although the left operand is truthy.
C14_Witness ==
    /\ Evaluated
    /\ LastRan = ProgLogical
    /\ LastOutput = LogicalOutput
    /\ \E i \in Events("logical") :
          Log[i][2] = "And" /\ ~isTruthy(Log[i][3]) /\ Log[i][4].t = "Number"
    /\ \E i \in Events("logical") :
          Log[i][2] = "Or" /\ isTruthy(Log[i][3]) /\ Log[i][5].t = "Boolean"

\* C15: assigning to a name that no environment on the current chain
\* defines raises IdentifierNotFound and creates no binding: Evaluate
\* returns that error, and every environment is as it was when the target
\* was looked up, then and after the error has unwound.
C15_AssignUndefined ==
    Evaluated =>
        /\ \A i \in Events("assign") :
              /\ Log[i][4] <=> Definers(Log[i][5], Log[i][3], Log[i][2]) /= {}
              /\ ~Log[i][4] =>
                    /\ evLast.err = "identifier not found"
                    /\ Log[i][6] = Log[i][5]
                    /\ interp.envs = Log[i][5]
                    /\ Definers(interp.envs, Log[i][3], Log[i][2]) = {}
        /\ LastRan \in {ProgAssignUndefined, ProgAssignInCall} =>
              /\ evLast.err = "identifier not found"
              /\ \E i \in Events("assign") : ~Log[i][4]

\* z is assigned three environments deep, after the assignment to a in its
\* right-hand side took effect: a is 3 and no environment binds z.
C15_Witness ==
    /\ Evaluated
    /\ LastRan = ProgAssignUndefined
    /\ evLast.err = "identifier not found"
    /\ interp.envs[GlobalEnv].Values["a"] = Number(3)
    /\ \E i \in Events("assign") :
          /\ ~Log[i][4] /\ Log[i][2] = "z"
          /\ Len(PathToRoot(Log[i][5], Log[i][3])) = 3
          /\ \A e \in DOMAIN interp.envs : "z" \notin DOMAIN interp.envs[e].Values

\* The call expressions of the last Evaluate whose callee is not callable
\* or has another arity than the number of arguments.
BadCalls ==
    {i \in Events("callee") :
        \/ Log[i][2].t \notin {"Function", "Klass", "Builtin"}
        \/ Arity(Log[i][2]) /= Log[i][3]}

CallErrorPrograms ==
    {ProgCallInstance, ProgCallFewArgs, ProgCallManyArgs, ProgCallClassArity,
     ProgCallBuiltinArity}

\* C16: a call whose callee is not a Function, Class or Builtin, or whose
\* number of arguments differs from the callee's arity, raises a runtime
\* error and the callee's body is not executed: Evaluate returns the error,
\* nothing but the blocks being left follows the call in the history, and
\* no call was made, no instance created and no line printed after it.
C16_CallChecked ==
    Evaluated =>
        /\ \A i \in BadCalls :
              /\ evLast.err \in {"not a function", "Expected arguments"}
              /\ \A k \in (i + 1)..Len(Log) : Log[k][1] = "leave"
              /\ interp.calls = Log[i][4]
              /\ Len(interp.insts) = Log[i][5]
              /\ interp.out[Len(interp.out)] /= "ran"
        /\ LastRan \in CallErrorPrograms => BadCalls /= {}

\* f(1, nowhere) with f of one parameter: the error is the arity error and
\* not the lookup of the second argument, and f did not print.
C16_Witness ==
    /\ Evaluated
    /\ LastRan = ProgCallManyArgs
    /\ evLast.err = "Expected arguments"
    /\ \E i \in BadCalls : Log[i][2].t = "Function" /\ Log[i][3] = 2
    /\ \A n \in DOMAIN interp.out : interp.out[n] /= "ran"

-----------------------------------------------------------------------------
(* The lexer (package lexer).  A source text is a sequence of one-character *)
(* strings; the Lexer holds the text, how many characters the scanner has   *)
(* read (off) and the current character ch.  A token is its Type and its    *)
(* Literal; the Position field, which no parser decision reads, is left out.*)

eof == "<eof>"

\* unicode.IsLetter, unicode.IsNumber and unicode.IsSpace on the ASCII range.
Letters == {"a", "b", "c", "d", "e", "f", "g", "h", "i", "j", "k", "l", "m",
            "n", "o", "p", "q", "r", "s", "t", "u", "v", "w", "x", "y", "z",
            "A", "B", "C", "X", "Y", "Z"}
Digits == {"0", "1", "2", "3", "4", "5", "6", "7", "8", "9"}
Spaces == {" ", "\t", "\n", "\r"}

keywords ==
    [class |-> "Class", this |-> "This", super |-> "Super", fn |-> "Function",
     let |-> "Let", true |-> "True", false |-> "False", nil |-> "Nil",
     if |-> "If", else |-> "Else", while |-> "While", return |-> "Return",
     print |-> "Print", or |-> "Or", and |-> "And", for |-> "For"]

LookupIdentifier(identifier) ==
    IF identifier \in DOMAIN keywords THEN keywords[identifier] ELSE "Identifier"

makeToken(ttype, literal) == [Type |-> ttype, Literal |-> literal]

isAtEnd(l) == l.ch = eof

\* scanner.Peek: the character after the ones read, scanner.EOF past the end.
peek(l) == IF l.off >= Len(l.src) THEN eof ELSE l.src[l.off + 1]

consume(l) ==
    IF isAtEnd(l) THEN l
    ELSE IF peek(l) = eof THEN [l EXCEPT !.ch = eof]
    ELSE [l EXCEPT !.ch = peek(l), !.off = @ + 1]

\* lexer.New: the zero rune in ch, then one consume.
NewLexer(input) == consume([src |-> input, off |-> 0, ch |-> ""])

RECURSIVE skipWhitespaces(_)
skipWhitespaces(l) ==
    IF l.ch \in Spaces THEN skipWhitespaces(consume(l)) ELSE l

match(l, ch) ==
    IF isAtEnd(l) \/ peek(l) /= ch
    THEN [l |-> l, ok |-> FALSE]
    ELSE [l |-> consume(l), ok |-> TRUE]

isAlphaNumeric(ch) == ch \in Letters \/ ch \in Digits \/ ch = "_"

\* The loops of readString, readNumber and readIdentifier: acc is the
\* strings.Builder.
RECURSIVE readStringLoop(_, _)
readStringLoop(l, acc) ==
    IF l.ch = "\"" THEN [l |-> l, literal |-> acc, err |-> ""]
    ELSE IF isAtEnd(l) THEN [l |-> l, literal |-> "", err |-> "unterminated string"]
    ELSE readStringLoop(consume(l), acc \o l.ch)

readString(l) ==
    LET started == consume(l) IN
    IF started.ch = "\""
    THEN [l |-> consume(started), literal |-> "", err |-> ""]
    ELSE readStringLoop(started, "")

RECURSIVE readDigits(_, _)
readDigits(l, acc) ==
    IF l.ch \in Digits THEN readDigits(consume(l), acc \o l.ch)
    ELSE [l |-> l, literal |-> acc]

readNumber(l) ==
    LET whole == readDigits(l, "") IN
    IF whole.l.ch = "." /\ peek(whole.l) \in Digits
    THEN readDigits(consume(whole.l), whole.literal \o ".")
    ELSE whole

RECURSIVE readIdentifierLoop(_, _)
readIdentifierLoop(l, acc) ==
    IF isAlphaNumeric(l.ch) THEN readIdentifierLoop(consume(l), acc \o l.ch)
    ELSE [l |-> l, literal |-> acc]

readIdentifier(l) == readIdentifierLoop(l, "")

TwoChar == [c \in {"!", "<", ">", "="} |->
              CASE c = "!" -> "!=" [] c = "<" -> "<=" [] c = ">" -> ">=" [] c = "=" -> "=="]
OneChar == {"*", "/", ",", ";", ".", "(", ")", "{", "}", "[", "]", "+", "-"}

\* NextToken: the lexer afterwards and the token returned.  The identifier
\* and number branches return at once; every other branch ends in consume.
NextToken(l0) ==
    LET l == skipWhitespaces(l0) IN
    CASE l.ch \in DOMAIN TwoChar ->
           LET m == match(l, "=") IN
           [l |-> consume(m.l),
            tok |-> IF m.ok THEN makeToken(TwoChar[l.ch], TwoChar[l.ch])
                            ELSE makeToken(l.ch, l.ch)]
      [] l.ch \in OneChar ->
           [l |-> consume(l), tok |-> makeToken(l.ch, l.ch)]
      [] l.ch = "\"" ->
           LET s == readString(l) IN
           [l |-> consume(s.l),
            tok |-> IF s.err /= "" THEN makeToken("Illegal", s.err)
                                   ELSE makeToken("String", s.literal)]
      [] l.ch = eof ->
           [l |-> consume(l), tok |-> makeToken("EOF", "")]
      [] l.ch \in Letters ->
           LET r == readIdentifier(l) IN
           [l |-> r.l, tok |-> makeToken(LookupIdentifier(r.literal), r.literal)]
      [] l.ch \in Digits ->
           LET r == readNumber(l) IN
           [l |-> r.l, tok |-> makeToken("Number", r.literal)]
      [] OTHER ->
           [l |-> consume(l), tok |-> makeToken("Illegal", "unknown token: " \o l.ch)]

\* Lexeme: NextToken until the lexer is at the end, then one more EOF token.
RECURSIVE LexemeLoop(_, _)
LexemeLoop(l, tokens) ==
    IF isAtEnd(l) THEN tokens
    ELSE LET n == NextToken(l) IN LexemeLoop(n.l, Append(tokens, n.tok))

Lexeme(l) == Append(LexemeLoop(l, <<>>), makeToken("EOF", ""))

-----------------------------------------------------------------------------
(* SpecLex: lexer.New on a source text, then Lexeme, one turn of its loop   *)
(* per step.  spans records, for each token, the index of the character it  *)
(* began at and the index the lexer stood at afterwards.                    *)

MaxText == 4
LexAlphabet == {"o", "r", "_", "1", " ", "\n", ";", "=", "\""}
LexTexts == UNION {[1..n -> LexAlphabet] : n \in 0..MaxText}

\* The index in the text of the lexer's current character.
Cur(l) == IF isAtEnd(l) THEN Len(l.src) + 1 ELSE l.off

LexInit ==
    /\ lx \in {[l |-> NewLexer(t), tokens |-> <<>>, spans |-> <<>>, pc |-> "loop"] :
                 t \in LexTexts}
    /\ px = Idle /\ repl = Idle
    /\ eHeap = Idle /\ eLast = Idle
    /\ interp = Idle /\ evLast = Idle
    /\ vm = Idle /\ vmStatus = Idle /\ vmProg = Idle

\* tokens = append(tokens, l.NextToken()) while the lexer is not at the end.
LexNextToken ==
    /\ lx.pc = "loop"
    /\ ~isAtEnd(lx.l)
    /\ LET n == NextToken(lx.l) IN
       lx' = [lx EXCEPT !.l = n.l,
                        !.tokens = Append(@, n.tok),
                        !.spans = Append(@, [from |-> Cur(skipWhitespaces(lx.l)),
                                             next |-> Cur(n.l)])]
    /\ UNCHANGED <<px, repl, envVars, evalVars, vmVars>>

\* The loop is left: the final EOF token is appended and Lexeme returns.
LexReturn ==
    /\ lx.pc = "loop"
    /\ isAtEnd(lx.l)
    /\ lx' = [lx EXCEPT !.tokens = Append(@, makeToken("EOF", "")),
                        !.spans = Append(@, [from |-> Cur(lx.l), next |-> Cur(lx.l)]),
                        !.pc = "done"]
    /\ UNCHANGED <<px, repl, envVars, evalVars, vmVars>>

LexNext == LexNextToken \/ LexReturn

SpecLex == LexInit /\ [][LexNext]_vars

\* The characters i..j of a text as one string.
RECURSIVE Slice(_, _, _)
Slice(src, i, j) == IF i > j THEN "" ELSE src[i] \o Slice(src, i + 1, j)

\* The maximal runs of a text that match [A-Za-z_][A-Za-z0-9_]*: i..j is a
\* match that no match i2..j2 of the text properly contains.
IsIdMatch(src, i, j) ==
    /\ 1 <= i /\ i <= j /\ j <= Len(src)
    /\ src[i] \in Letters \cup {"_"}
    /\ \A k \in i..j : isAlphaNumeric(src[k])
IdRuns(src) ==
    {r \in (1..Len(src)) \X (1..Len(src)) :
        /\ IsIdMatch(src, r[1], r[2])
        /\ \A i2 \in 1..r[1], j2 \in r[2]..Len(src) :
              IsIdMatch(src, i2, j2) => (i2 = r[1] /\ j2 = r[2])}

EofTokens == {k \in 1..Len(lx.tokens) : lx.tokens[k].Type = "EOF"}

\* C19: for every source text (also one ending in whitespace or a newline,
\* and the empty text) the token sequence Lexeme returns ends with an EOF
\* token and holds exactly one EOF token.
C19_SingleEOF ==
    (lx /= Idle /\ lx.pc = "done") =>
        /\ lx.tokens[Len(lx.tokens)].Type = "EOF"
        /\ Cardinality(EofTokens) = 1

\* What holds instead: the sequence ends with EOF, and a second EOF token
\* comes just before it only for a text that ends in whitespace.
C19_EOFCount ==
    (lx /= Idle /\ lx.pc = "done") =>
        LET src == lx.l.src IN
        /\ lx.tokens[Len(lx.tokens)].Type = "EOF"
        /\ Cardinality(EofTokens) \in {1, 2}
        /\ Cardinality(EofTokens) = 2 =>
              /\ Len(src) > 0 /\ src[Len(src)] \in Spaces
              /\ lx.tokens[Len(lx.tokens) - 1].Type = "EOF"

\* C20: every maximal run of characters matching [A-Za-z_][A-Za-z0-9_]*, a
\* run that begins with an underscore included, is lexed as exactly one token
\* whose lexeme is the whole run, of the keyword's kind when the run is in the
\* keyword table and of kind Identifier otherwise (runs after a string quote
\* are left aside: they may lie inside a string literal).
C20_IdentifierRuns ==
    (lx /= Idle /\ lx.pc = "done") =>
        LET src == lx.l.src IN
        \A r \in IdRuns(src) :
            (\A k \in 1..r[1] : src[k] /= "\"") =>
                LET ks == {k \in 1..Len(lx.tokens) :
                              /\ lx.spans[k].from >= r[1]
                              /\ lx.spans[k].from <= r[2]} IN
                /\ Cardinality(ks) = 1
                /\ \A k \in ks :
                      /\ lx.spans[k].from = r[1]
                      /\ lx.spans[k].next = r[2] + 1
                      /\ lx.tokens[k].Literal = Slice(src, r[1], r[2])
                      /\ lx.tokens[k].Type = LookupIdentifier(Slice(src, r[1], r[2]))

\* The same for the runs that begin with a letter, which is what the lexer
\* does.
C20_LetterRuns ==
    (lx /= Idle /\ lx.pc = "done") =>
        LET src == lx.l.src IN
        \A i \in 1..Len(src) :
            (/\ src[i] \in Letters
             /\ (i = 1 \/ ~isAlphaNumeric(src[i - 1]))
             /\ \A k \in 1..i : src[k] /= "\"") =>
                \E k \in 1..Len(lx.tokens) :
                    /\ lx.spans[k].from = i
                    /\ lx.tokens[k].Type = LookupIdentifier(lx.tokens[k].Literal)
                    /\ lx.tokens[k].Literal = Slice(src, i, lx.spans[k].next - 1)
                    /\ \A j \in i..(lx.spans[k].next - 1) : isAlphaNumeric(src[j])
                    /\ (lx.spans[k].next <= Len(src) =>
                           ~isAlphaNumeric(src[lx.spans[k].next]))

-----------------------------------------------------------------------------
(* The parser (package parser).  A Parser holds the tokens and the index    *)
(* current of the next one.  Every parsing function yields the parser       *)
(* afterwards, the node it built and err, the message of the ParseError it  *)
(* panicked with ("" when it returned); an operator token is kept as its    *)
(* token.Type, a name token as its Literal.                                 *)

SuperExpr(method) == [k |-> "SuperExpr", Method |-> method]

NewParser(tokens) == [tokens |-> tokens, current |-> 0]

Parsed(p, node) == [p |-> p, node |-> node, err |-> ""]
\* Parser.error: panic(ParseError{msg (at line, column)}).
error(p, msg) == [p |-> p, node |-> NoNode, err |-> msg]
\* Go on with K unless r is a panic on its way up the call stack.
Then(r, K(_)) == IF r.err /= "" THEN r ELSE K(r)

parserPeek(p) == p.tokens[p.current + 1]
previous(p) == p.tokens[p.current]
parserIsAtEnd(p) == parserPeek(p).Type = "EOF"
avance(p) == IF ~parserIsAtEnd(p) THEN [p EXCEPT !.current = @ + 1] ELSE p
check(p, tokenTypes) == ~parserIsAtEnd(p) /\ parserPeek(p).Type \in tokenTypes
expect(p, tok, msg) ==
    IF check(p, {tok}) THEN Parsed(avance(p), NoNode) ELSE error(p, msg)

\* The levels of binary operators from or() down to factor(): each parses
\* the next level, then loops on its own operators.
Levels == <<{"Or"}, {"And"}, {"==", "!="}, {">", ">=", "<", "<="},
            {"+", "-"}, {"/", "*"}>>
MaxArguments == 255
MaxParameters == 255

RECURSIVE expression(_), assignement(_), binaryLevel(_, _), leftAssoc(_, _)
RECURSIVE unary(_), call(_), callLoop(_), finishCall(_, _), arguments(_, _)
RECURSIVE primary(_)

expression(p) == assignement(p)

\* Parser.match(token.Assign) is check followed by avance, here and below.
assignement(p) ==
    Then(binaryLevel(1, p), LAMBDA expr :
      IF ~check(expr.p, {"="}) THEN expr
      ELSE Then(assignement(avance(expr.p)), LAMBDA value :
             CASE expr.node.k = "VariableExpr" ->
                    Parsed(value.p, AssignExpr(expr.node.Name, value.node))
               [] expr.node.k = "GetExpr" ->
                    Parsed(value.p, SetExpr(expr.node.Obj, expr.node.Name, value.node))
               [] OTHER -> error(value.p, "invalid assignement target")))

\* or, and, equality, comparaison, addition, factor for n = 1..6.
binaryLevel(n, p) ==
    IF n > Len(Levels) THEN unary(p) ELSE leftAssoc(n, binaryLevel(n + 1, p))

\* The for loop of level n: expr = Binary/Logical{expr, operator, right}.
leftAssoc(n, expr) ==
    IF expr.err /= "" \/ ~check(expr.p, Levels[n]) THEN expr
    ELSE Then(binaryLevel(n + 1, avance(expr.p)), LAMBDA right :
           leftAssoc(n, Parsed(right.p,
               IF n <= 2 THEN LogicalExpr(expr.node, parserPeek(expr.p).Type, right.node)
                         ELSE BinaryExpr(expr.node, parserPeek(expr.p).Type, right.node))))

unary(p) ==
    IF check(p, {"!", "-"})
    THEN Then(unary(avance(p)), LAMBDA right :
           Parsed(right.p, UnaryExpr(parserPeek(p).Type, right.node)))
    ELSE call(p)

call(p) == callLoop(primary(p))

callLoop(expr) ==
    CASE expr.err /= "" -> expr
      [] check(expr.p, {"("}) -> callLoop(finishCall(avance(expr.p), expr.node))
      [] check(expr.p, {"."}) ->
           Then(expect(avance(expr.p), "Identifier", "expected property name after ."),
                LAMBDA name :
                  callLoop(Parsed(name.p, GetExpr(expr.node, previous(name.p).Literal))))
      [] OTHER -> expr

finishCall(p, callee) ==
    IF check(p, {")"}) THEN Parsed(avance(p), CallExpr(callee, <<>>))
    ELSE Then(arguments(p, <<>>), LAMBDA args :
         Then(expect(args.p, ")", "expected  ')' after arguments."), LAMBDA close :
           Parsed(close.p, CallExpr(callee, args.node))))

\* The for loop of finishCall; the node yielded is the argument list.
arguments(p, sofar) ==
    Then(expression(p), LAMBDA arg :
      CASE Len(sofar) >= MaxArguments ->
             error(arg.p, "function cannot have more than 255 arguments.")
        [] check(arg.p, {","}) -> arguments(avance(arg.p), Append(sofar, arg.node))
        [] OTHER -> Parsed(arg.p, Append(sofar, arg.node)))

\* primary: five if statements in a row, none an else of another; expr is
\* what the last one that matched assigned, nil when none matched.
primary(p) ==
    Then(IF check(p, {"True", "False", "Nil", "String", "Number"})
         THEN Parsed(avance(p), Literal(parserPeek(p).Type, parserPeek(p).Literal))
         ELSE Parsed(p, NoNode), LAMBDA lit :
    Then(IF check(lit.p, {"This"}) THEN Parsed(avance(lit.p), ThisExpr) ELSE lit,
         LAMBDA this :
    Then(IF ~check(this.p, {"Super"}) THEN this
         ELSE Then(expect(avance(this.p), ".", "expected '.' after super"), LAMBDA dot :
              Then(expect(dot.p, "Identifier", "expected method name of super"),
                   LAMBDA method :
                     Parsed(method.p, SuperExpr(previous(method.p).Literal)))),
         LAMBDA super :
    Then(IF ~check(super.p, {"("}) THEN super
         ELSE Then(expression(avance(super.p)), LAMBDA inner :
              Then(expect(inner.p, ")", "expected ) after expression."), LAMBDA close :
                Parsed(close.p, GroupingExpr(inner.node)))),
         LAMBDA group :
    IF check(group.p, {"Identifier"})
    THEN Parsed(avance(group.p), VariableExpr(parserPeek(group.p).Literal))
    ELSE group))))

RECURSIVE declaration(_), statement(_), blockStatement(_), blockStatements(_, _)
RECURSIVE functionDeclaration(_), parameters(_, _), classDeclaration(_), methods(_, _)
RECURSIVE ifStatement(_), whileStatement(_)

varDeclaration(p) ==
    Then(expect(p, "Identifier", "expected identifier after let"), LAMBDA ident :
    Then(IF check(ident.p, {"="}) THEN expression(avance(ident.p))
                                  ELSE Parsed(ident.p, NoNode), LAMBDA expr :
    Then(expect(expr.p, ";", "expected semicolon after a expression"), LAMBDA semi :
      Parsed(semi.p, VariableStmt(previous(ident.p).Literal, expr.node)))))

\* The parameter loop of functionDeclaration; the node yielded is the list.
parameters(p, sofar) ==
    Then(expect(p, "Identifier", "Expect parameter name."), LAMBDA name :
      CASE Len(sofar) >= MaxParameters ->
             error(name.p, "Cannot have more than 255 parameters.")
        [] check(name.p, {","}) ->
             parameters(avance(name.p), Append(sofar, previous(name.p).Literal))
        [] OTHER -> Parsed(name.p, Append(sofar, previous(name.p).Literal)))

functionDeclaration(p) ==
    Then(expect(p, "Identifier", "expected function name"), LAMBDA name :
    Then(expect(name.p, "(", "expected '(' after function name."), LAMBDA open :
    Then(IF check(open.p, {")"}) THEN Parsed(avance(open.p), <<>>)
         ELSE Then(parameters(open.p, <<>>), LAMBDA ps :
              Then(expect(ps.p, ")", "Expect ')' after parameters."), LAMBDA close :
                Parsed(close.p, ps.node))), LAMBDA params :
    Then(expect(params.p, "{", "Expect '{' before function body."), LAMBDA brace :
    Then(blockStatement(brace.p), LAMBDA body :
      Parsed(body.p, FunctionStmt(previous(name.p).Literal, params.node,
                                  body.node.Statements)))))))

\* The method loop of classDeclaration.
methods(p, sofar) ==
    IF ~check(p, {"Identifier"}) THEN Parsed(p, sofar)
    ELSE Then(functionDeclaration(p), LAMBDA method :
           methods(method.p,
                   Append(sofar, [method.node EXCEPT
                                    !.IsInitializer = (method.node.Name = "init")])))

classDeclaration(p) ==
    Then(expect(p, "Identifier", "expected class name after class"), LAMBDA name :
    Then(IF check(name.p, {"<"})
         THEN Then(expect(avance(name.p), "Identifier", "expected superclass name."),
                   LAMBDA s : Parsed(s.p, VariableExpr(previous(s.p).Literal)))
         ELSE Parsed(name.p, VariableExpr("")), LAMBDA superclass :
    Then(expect(superclass.p, "{", "expected '{' after class name."), LAMBDA brace :
    Then(methods(brace.p, <<>>), LAMBDA ms :
    Then(expect(ms.p, "}", "Expect '}' after class block."), LAMBDA close :
      Parsed(close.p, ClassStmt(previous(name.p).Literal, superclass.node,
                                ms.node)))))))

declaration(p) ==
    CASE check(p, {"Let"}) -> varDeclaration(avance(p))
      [] check(p, {"Function"}) -> functionDeclaration(avance(p))
      [] check(p, {"Class"}) -> classDeclaration(avance(p))
      [] OTHER -> statement(p)

printStatement(p) ==
    Then(expression(p), LAMBDA expr :
    Then(expect(expr.p, ";", "Expect ';' after value."), LAMBDA semi :
      Parsed(semi.p, PrintStmt(expr.node))))

\* The loop of blockStatement; the node yielded is the statement list.
blockStatements(p, sofar) ==
    IF check(p, {"}"}) \/ parserIsAtEnd(p) THEN Parsed(p, sofar)
    ELSE Then(declaration(p), LAMBDA stmt :
           blockStatements(stmt.p, Append(sofar, stmt.node)))

blockStatement(p) ==
    Then(blockStatements(p, <<>>), LAMBDA stmts :
    Then(expect(stmts.p, "}", "Expect '}' after block."), LAMBDA close :
      Parsed(close.p, BlockStmt(stmts.node))))

\* The head of ifStatement and whileStatement: ( expression ).
condition(p, keyword) ==
    Then(expect(p, "(", "expected ( after " \o keyword), LAMBDA open :
    Then(expression(open.p), LAMBDA expr :
    Then(expect(expr.p, ")", "expected ) after condition"), LAMBDA close :
      Parsed(close.p, expr.node))))

ifStatement(p) ==
    Then(condition(p, "if"), LAMBDA expr :
    Then(statement(expr.p), LAMBDA thenBranch :
      IF check(thenBranch.p, {"Else"})
      THEN Then(statement(avance(thenBranch.p)), LAMBDA elseBranch :
             Parsed(elseBranch.p, IfStmt(expr.node, thenBranch.node, elseBranch.node)))
      ELSE Parsed(thenBranch.p, IfStmt(expr.node, thenBranch.node, NoNode))))

whileStatement(p) ==
    Then(condition(p, "while"), LAMBDA expr :
    Then(statement(expr.p), LAMBDA body :
      Parsed(body.p, WhileStmt(expr.node, body.node))))

returnStatement(p) ==
    IF check(p, {";"}) THEN Parsed(avance(p), ReturnStmt(NoNode))
    ELSE Then(expression(p), LAMBDA value :
         Then(expect(value.p, ";", "expected ';' after return value."), LAMBDA semi :
           Parsed(semi.p, ReturnStmt(value.node))))

expressionStatement(p) ==
    Then(expression(p), LAMBDA expr :
    Then(expect(expr.p, ";", "expected ';' after value."), LAMBDA semi :
      Parsed(semi.p, ExprStmt(expr.node))))

statement(p) ==
    CASE check(p, {"Print"}) -> printStatement(avance(p))
      [] check(p, {"{"}) -> blockStatement(avance(p))
      [] check(p, {"If"}) -> ifStatement(avance(p))
      [] check(p, {"While"}) -> whileStatement(avance(p))
      [] check(p, {"Return"}) -> returnStatement(avance(p))
      [] OTHER -> expressionStatement(p)

SyncTypes == {"Class", "Function", "Let", "If", "While", "Print", "Return"}

\* synchronize: one avance, then on until the previous token is a semicolon,
\* the next one begins a statement, or the end.
RECURSIVE synchronizeLoop(_)
synchronizeLoop(p) ==
    IF parserIsAtEnd(p) \/ previous(p).Type = ";" \/ parserPeek(p).Type \in SyncTypes
    THEN p
    ELSE synchronizeLoop(avance(p))

synchronize(p) == synchronizeLoop(avance(p))

\* One turn of the loop of Parse: the declaration is appended, or the panic
\* is recovered by the deferred function, which synchronizes the parser and
\* makes Parse return the empty Program and the error.
ParseTurn(p, statements, stmt) ==
    IF stmt.err /= ""
    THEN [p |-> synchronize(stmt.p), statements |-> statements, errp |-> stmt.p,
          program |-> Program(<<>>), err |-> stmt.err, pc |-> "returned"]
    ELSE [p |-> stmt.p, statements |-> Append(statements, stmt.node), errp |-> NoNode,
          program |-> NoNode, err |-> "", pc |-> "loop"]

\* Parse as a whole: the turns of its loop until the EOF token or a
\* recovered ParseError.
RECURSIVE ParseLoop(_, _)
ParseAfter(turn) ==
    IF turn.pc = "returned" THEN [program |-> turn.program, err |-> turn.err]
    ELSE ParseLoop(turn.p, turn.statements)

ParseLoop(p, statements) ==
    IF parserIsAtEnd(p) THEN [program |-> Program(statements), err |-> ""]
    ELSE ParseAfter(ParseTurn(p, statements, declaration(p)))

Parse(p) == ParseLoop(p, <<>>)

-----------------------------------------------------------------------------
(* SpecParse: parser.New on the tokens of a source text, then Parse, one    *)
(* turn of its loop per step.  A text is written as the sequence of its     *)
(* lexemes; Tokens gives the tokens Lexeme returns for it.                  *)

NumberLexemes == {"1", "2", "3", "123", "456", "789"}
Punctuation == OneChar \cup DOMAIN TwoChar \cup {TwoChar[c] : c \in DOMAIN TwoChar}

TokenOf(lexeme) ==
    CASE lexeme \in DOMAIN keywords -> makeToken(keywords[lexeme], lexeme)
      [] lexeme \in Punctuation -> makeToken(lexeme, lexeme)
      [] lexeme \in NumberLexemes -> makeToken("Number", lexeme)
      [] OTHER -> makeToken("Identifier", lexeme)

Tokens(lexemes) ==
    [i \in 1..(Len(lexemes) + 1) |->
        IF i <= Len(lexemes) THEN TokenOf(lexemes[i]) ELSE makeToken("EOF", "")]

\* Every expression statement of at most MaxExprTokens tokens over
\* ExprAlphabet, every text of at most MaxStmtTokens tokens over
\* StmtAlphabet, and the texts of ParseTexts.
MaxExprTokens == 5
MaxStmtTokens == 4
ExprAlphabet == {"1", "a", "-", "*", "or", "="}
StmtAlphabet == {"1", "a", "+", "=", ";", "print", "let"}

ParseTexts == {
    <<"123", "-", "-", "456", "-", "789", ";">>,
    <<"1", ">=", "2", "==", "!", "false", ";">>,
    <<"123", "-", "456", "*", "789", "/", "123", ";">>,
    <<"true", "or", "false", ";">>,
    <<"false", "or", "(", "2", "==", "2", ")", ";">>,
    <<"a", "==", "2", "and", "false", "or", "b", "and", "c", ";">>,
    <<"a", "=", "b", "=", "1", "or", "2", ";">>,
    <<"x", ".", "y", ".", "z", "=", "f", "(", "1", ",", "2", ")", "(", ")", ";">>,
    <<"this", ".", "x", ";">>,
    <<"super", ".", "m", "(", "1", ")", ";">>,
    <<"this", "(", "1", ")", ";">>,
    <<"(", "a", ")", "(", "b", ")", ";">>,
    <<"1", "+", ";">>,
    <<"print", ";">>,
    <<"let", "=", "1", ";", "print", "2", ";">>,
    <<"print", "1", "print", "2", ";", "print", "3", ";">>,
    <<"let", "a", "=", "(", "1", ";", "let", "b", "=", "2", ";">>,
    <<"a", "+", "1", "=", "2", ";", "print", "a", ";">>,
    <<"fn", "f", "(", "a", ",", "b", ")", "{", "return", "a", ";", "}",
      "fn", "g", "(", ")", "{", "return", ";", "}">>,
    <<"class", "A", "<", "B", "{", "init", "(", "x", ")", "{", "this", ".", "x",
      "=", "x", ";", "}", "}", "class", "E", "{", "}">>,
    <<"if", "(", "a", "<", "1", ")", "print", "a", ";", "else", "{", "}",
      "while", "(", "a", ")", "a", "=", "a", "-", "1", ";", "if", "(", "a", ")", ";">>,
    <<"class", "{", "}", "let", "a", ";">>,
    <<"fn", "f", "(", ")", "{", "let", "a", "=", ";">>
}

ParseInputs ==
    {Append(e, ";") : e \in UNION {[1..n -> ExprAlphabet] : n \in 1..MaxExprTokens}}
    \cup UNION {[1..n -> StmtAlphabet] : n \in 0..MaxStmtTokens}
    \cup ParseTexts

\* px: the lexemes of the text, the Parser, the statements collected, the
\* indices at which Parse called declaration (begun), and what Parse
\* returned once pc = "returned"; errp is the Parser as the panic left it.
ParseInit ==
    /\ px \in {[text |-> t, p |-> NewParser(Tokens(t)), statements |-> <<>>,
                begun |-> <<>>, pc |-> "loop", program |-> NoNode, err |-> "",
                errp |-> NoNode] : t \in ParseInputs}
    /\ lx = Idle /\ repl = Idle
    /\ eHeap = Idle /\ eLast = Idle
    /\ interp = Idle /\ evLast = Idle
    /\ vm = Idle /\ vmStatus = Idle /\ vmProg = Idle

\* A turn of the loop of Parse in which declaration returns.
PxDeclaration ==
    /\ px.pc = "loop"
    /\ ~parserIsAtEnd(px.p)
    /\ px' = [t \in {"text", "begun"} |->
                IF t = "text" THEN px.text ELSE Append(px.begun, px.p.current)]
             @@ ParseTurn(px.p, px.statements, declaration(px.p))
    /\ px'.pc = "loop"
    /\ UNCHANGED <<lx, repl, envVars, evalVars, vmVars>>

\* A turn in which declaration panics with a ParseError: the deferred
\* function recovers it, synchronizes, and Parse returns.
PxRecover ==
    /\ px.pc = "loop"
    /\ ~parserIsAtEnd(px.p)
    /\ px' = [t \in {"text", "begun"} |->
                IF t = "text" THEN px.text ELSE Append(px.begun, px.p.current)]
             @@ ParseTurn(px.p, px.statements, declaration(px.p))
    /\ px'.pc = "returned"
    /\ UNCHANGED <<lx, repl, envVars, evalVars, vmVars>>

\* The loop is left at the EOF token: Parse returns the Program.
PxReturn ==
    /\ px.pc = "loop"
    /\ parserIsAtEnd(px.p)
    /\ px' = [px EXCEPT !.program = Program(px.statements), !.pc = "returned"]
    /\ UNCHANGED <<lx, repl, envVars, evalVars, vmVars>>

ParseNext == PxDeclaration \/ PxRecover \/ PxReturn

SpecParse == ParseInit /\ [][ParseNext]_vars

-----------------------------------------------------------------------------
(* Claims about the parser.                                                 *)

\* The expression grammar the precedence order describes, as a precedence
\* climber over the tokens ts from index i: assignment < or < and < equality
\* < comparison < addition < multiplication < unary < call < primary, binary
\* and logical operators left-associative, assignment to a variable or a
\* property only, the alternatives of primary exclusive.  A result is the
\* index after the expression, its tree, and err = "" when there is one.
Prec(type) ==
    CASE type = "Or" -> 1
      [] type = "And" -> 2
      [] type \in {"==", "!="} -> 3
      [] type \in {">", ">=", "<", "<="} -> 4
      [] type \in {"+", "-"} -> 5
      [] type \in {"/", "*"} -> 6
      [] OTHER -> 0
TypeAt(ts, i) == IF i <= Len(ts) THEN ts[i].Type ELSE "EOF"
G(i, node) == [i |-> i, node |-> node, err |-> ""]
GFail == [i |-> 0, node |-> NoNode, err |-> "not an expression"]

RECURSIVE GExpr(_, _), GBinary(_, _, _), GClimb(_, _, _), GUnary(_, _)
RECURSIVE GPostfix(_, _), GArgs(_, _, _), GPrimary(_, _)

GExpr(ts, i) ==
    Then(GBinary(ts, i, 1), LAMBDA l :
      CASE TypeAt(ts, l.i) /= "=" -> l
        [] l.node.k = "VariableExpr" ->
             Then(GExpr(ts, l.i + 1), LAMBDA v :
               G(v.i, AssignExpr(l.node.Name, v.node)))
        [] l.node.k = "GetExpr" ->
             Then(GExpr(ts, l.i + 1), LAMBDA v :
               G(v.i, SetExpr(l.node.Obj, l.node.Name, v.node)))
        [] OTHER -> GFail)

GBinary(ts, i, min) == GClimb(ts, GUnary(ts, i), min)

GClimb(ts, l, min) ==
    IF l.err /= "" \/ Prec(TypeAt(ts, l.i)) < min \/ Prec(TypeAt(ts, l.i)) = 0 THEN l
    ELSE Then(GBinary(ts, l.i + 1, Prec(TypeAt(ts, l.i)) + 1), LAMBDA r :
           GClimb(ts, G(r.i, IF Prec(TypeAt(ts, l.i)) <= 2
                             THEN LogicalExpr(l.node, TypeAt(ts, l.i), r.node)
                             ELSE BinaryExpr(l.node, TypeAt(ts, l.i), r.node)), min))

GUnary(ts, i) ==
    IF TypeAt(ts, i) \in {"!", "-"}
    THEN Then(GUnary(ts, i + 1), LAMBDA r : G(r.i, UnaryExpr(TypeAt(ts, i), r.node)))
    ELSE GPostfix(ts, GPrimary(ts, i))

GPostfix(ts, c) ==
    CASE c.err /= "" -> c
      [] TypeAt(ts, c.i) = "(" /\ TypeAt(ts, c.i + 1) = ")" ->
           GPostfix(ts, G(c.i + 2, CallExpr(c.node, <<>>)))
      [] TypeAt(ts, c.i) = "(" /\ TypeAt(ts, c.i + 1) /= ")" ->
           Then(GArgs(ts, c.i + 1, <<>>), LAMBDA a :
             IF TypeAt(ts, a.i) = ")"
             THEN GPostfix(ts, G(a.i + 1, CallExpr(c.node, a.node)))
             ELSE GFail)
      [] TypeAt(ts, c.i) = "." ->
           IF TypeAt(ts, c.i + 1) = "Identifier"
           THEN GPostfix(ts, G(c.i + 2, GetExpr(c.node, ts[c.i + 1].Literal)))
           ELSE GFail
      [] OTHER -> c

GArgs(ts, i, sofar) ==
    Then(GExpr(ts, i), LAMBDA a :
      IF TypeAt(ts, a.i) = "," THEN GArgs(ts, a.i + 1, Append(sofar, a.node))
                               ELSE G(a.i, Append(sofar, a.node)))

GPrimary(ts, i) ==
    CASE TypeAt(ts, i) \in {"True", "False", "Nil", "String", "Number"} ->
           G(i + 1, Literal(ts[i].Type, ts[i].Literal))
      [] TypeAt(ts, i) = "This" -> G(i + 1, ThisExpr)
      [] TypeAt(ts, i) = "Super" ->
           IF TypeAt(ts, i + 1) = "." /\ TypeAt(ts, i + 2) = "Identifier"
           THEN G(i + 3, SuperExpr(ts[i + 2].Literal))
           ELSE GFail
      [] TypeAt(ts, i) = "(" ->
           Then(GExpr(ts, i + 1), LAMBDA e :
             IF TypeAt(ts, e.i) = ")" THEN G(e.i + 1, GroupingExpr(e.node)) ELSE GFail)
      [] TypeAt(ts, i) = "Identifier" -> G(i + 1, VariableExpr(ts[i].Literal))
      [] OTHER -> GFail

\* The text that was parsed is one expression followed by a semicolon, and
\* the tokens of that expression.
ExprTokens == [i \in 1..(Len(px.text) - 1) |-> TokenOf(px.text[i])]
IsExprStatement ==
    /\ px /= Idle
    /\ px.pc = "returned"
    /\ Len(px.text) >= 2
    /\ px.text[Len(px.text)] = ";"
    /\ GExpr(ExprTokens, 1).err = ""
    /\ GExpr(ExprTokens, 1).i = Len(px.text)

\* C17: for every token sequence that is a well-formed expression the parser
\* builds the tree the precedence order gives, assignment < or < and <
\* equality < comparison < addition < multiplication < unary < call <
\* primary, with every binary and logical operator left-associative.
C17_Precedence ==
    IsExprStatement =>
        /\ px.err = ""
        /\ px.program = Program(<<ExprStmt(GExpr(ExprTokens, 1).node)>>)

\* A call whose callee is a literal, this or super.method: the opening
\* parenthesis directly follows that primary.
CallsPrimary ==
    \E i \in 2..Len(ExprTokens) :
        /\ ExprTokens[i].Type = "("
        /\ \/ ExprTokens[i - 1].Type \in {"True", "False", "Nil", "String", "Number", "This"}
           \/ /\ i >= 4
              /\ ExprTokens[i - 1].Type = "Identifier"
              /\ ExprTokens[i - 2].Type = "."
              /\ ExprTokens[i - 3].Type = "Super"

\* What holds instead: the tree is the one the precedence order gives for
\* every well-formed expression that calls no literal, this or super.method.
C17_PrecedenceButCalls ==
    (IsExprStatement /\ ~CallsPrimary) =>
        /\ px.err = ""
        /\ px.program = Program(<<ExprStmt(GExpr(ExprTokens, 1).node)>>)

\* The two examples of the claim and the logical ones of the parser's tests
\* are parsed as the tests expect.
C17_Examples ==
    (px /= Idle /\ px.pc = "returned") =>
        /\ px.text = <<"123", "-", "456", "*", "789", "/", "123", ";">> =>
             px.program = Program(<<ExprStmt(
                 BinaryExpr(Literal("Number", "123"), "-",
                     BinaryExpr(BinaryExpr(Literal("Number", "456"), "*",
                                           Literal("Number", "789")),
                                "/", Literal("Number", "123"))))>>)
        /\ px.text = <<"1", ">=", "2", "==", "!", "false", ";">> =>
             px.program = Program(<<ExprStmt(
                 BinaryExpr(BinaryExpr(Literal("Number", "1"), ">=", Literal("Number", "2")),
                            "==", UnaryExpr("!", Literal("False", "false"))))>>)
        /\ px.text = <<"123", "-", "-", "456", "-", "789", ";">> =>
             px.program = Program(<<ExprStmt(
                 BinaryExpr(BinaryExpr(Literal("Number", "123"), "-",
                                       UnaryExpr("-", Literal("Number", "456"))),
                            "-", Literal("Number", "789")))>>)

\* The positions of a token list at which synchronize may stop after a panic
\* at index e: past the offending token, and just past a semicolon, at a
\* token that begins a statement, or at the EOF token.
SyncPoints(toks, e) ==
    {c \in e..(Len(toks) - 1) :
        /\ c > e \/ c = Len(toks) - 1
        /\ \/ c = Len(toks) - 1
           \/ (c >= 1 /\ toks[c].Type = ";")
           \/ toks[c + 1].Type \in SyncTypes}
FirstSyncPoint(toks, e) ==
    CHOOSE c \in SyncPoints(toks, e) : \A d \in SyncPoints(toks, e) : c <= d

\* What holds of a Parse that met an error: it returns the error of the
\* first declaration that failed and the empty Program, and leaves the
\* parser at the first synchronization point after the offending token.
C18_Synchronized ==
    (px /= Idle /\ px.pc = "returned" /\ px.err /= "") =>
        /\ px.p.current = FirstSyncPoint(px.p.tokens, px.errp.current)
        /\ px.program = Program(<<>>)
        /\ px.err = declaration([px.p EXCEPT !.current = px.begun[Len(px.begun)]]).err
        /\ \A k \in 1..(Len(px.begun) - 1) :
              declaration([px.p EXCEPT !.current = px.begun[k]]).err = ""

\* C18: when a parse error occurs, Parse discards tokens until it is just
\* past a semicolon or at a token of kind class, fn, let, if, while, print or
\* return, then resumes parsing the remaining declarations from that point,
\* and returns the first error to the caller.
C18_Resynchronize ==
    (px /= Idle /\ px.pc = "returned" /\ px.err /= "") =>
        /\ px.errp.current <= FirstSyncPoint(px.p.tokens, px.errp.current)
        /\ px.err = declaration([px.p EXCEPT !.current = px.begun[Len(px.begun)]]).err
        /\ ~parserIsAtEnd([px.p EXCEPT !.current =
                              FirstSyncPoint(px.p.tokens, px.errp.current)]) =>
              \E k \in 1..Len(px.begun) :
                  px.begun[k] = FirstSyncPoint(px.p.tokens, px.errp.current)

-----------------------------------------------------------------------------
(* The builtin push (src/valuer/builtins.go).                               *)

\* The global bindings of the interpreter, the arrays among them, and the
\* values pushed.
Globals == interp.envs[GlobalEnv].Values
GlobalArrays == {Globals[k] : k \in {n \in DOMAIN Globals : Globals[n].t = "Array"}}
PushValues == {Number(7), NilV, String("s"), Array(0, <<Number(1)>>)}
Elems(name) == Globals[name].Elements

\* C21: push(a, v) returns a new array of length len(a) + 1 whose first
\* len(a) elements are those of a, in order, and whose last element is v;
\* the array a that was passed in keeps its length and its elements, also
\* after further push or rest calls on the result.
C21_PushPersistent ==
    Evaluated =>
        /\ \A a \in GlobalArrays, v \in PushValues :
              LET r == callBuiltin("push", <<a, v>>, interp)
                  n == callBuiltin("len", <<r.v>>, r.st)
              IN /\ r.err = "" /\ r.v.t = "Array"
                 /\ \A b \in GlobalArrays : r.v.id /= b.id
                 /\ n.err = "" /\ n.v = Number(Len(a.Elements) + 1)
                 /\ SubSeq(r.v.Elements, 1, Len(a.Elements)) = a.Elements
                 /\ r.v.Elements[Len(r.v.Elements)] = v
                 /\ r.st.envs = interp.envs
                 /\ n.st.envs = interp.envs
        /\ (LastRan = ProgPush /\ evLast.err = "") =>
              /\ Elems("pa") = <<Number(1), Number(2)>>
              /\ Elems("pb") = <<Number(1), Number(2), Number(3)>>
              /\ Elems("pc") = <<Number(1), Number(2), Number(3), Number(4)>>
              /\ Elems("pd") = <<Number(2), Number(3)>>
              /\ Elems("pe") = <<Number(1), Number(2), True>>
              /\ Cardinality({Globals[k].id : k \in {"pa", "pb", "pc", "pd", "pe"}}) = 5

\* pa was pushed on twice, and its result pb was pushed on and rested.
C21_Witness ==
    /\ Evaluated
    /\ LastRan = ProgPush
    /\ evLast.err = ""
    /\ Len(Elems("pa")) = 2 /\ Len(Elems("pb")) = 3 /\ Len(Elems("pe")) = 3
    /\ Len(Elems("pc")) = 4 /\ Len(Elems("pd")) = 2

-----------------------------------------------------------------------------
(* Standard output of the evaluator.                                        *)

\* The lines of the print statements the last Evaluate executed, in order.
PrintEvents == SelectSeq(Log, LAMBDA e : e[1] = "print")
Printed == [i \in DOMAIN PrintEvents |-> PrintEvents[i][2]]

\* C22: running a program on a new interpreter writes to standard output
\* exactly one line inspect(value) per executed print statement, in
\* execution order, and nothing else: declarations, assignments and calls
\* write nothing.
C22_OnlyPrintWrites ==
    Len(evLast.hist) = 1 => interp.out = Printed

-----------------------------------------------------------------------------
(* SpecRepl: repl.Start (src/unnamed/part_009).  One step is one turn of    *)
(* its loop: the prompt, a line scanned from the input (or its end), and    *)
(* what Start does with it.  A line is written as the sequence of its       *)
(* lexemes; Tokens gives the tokens Lexeme returns for it.  repl keeps the  *)
(* number of prompts written, the lines read, what was written to out and   *)
(* whether Start is in its loop or has returned.                            *)

MaxLines == 3

EXIT == <<"exit">>

ReplLines == {
    <<"let", "x", "=", "1", ";">>,
    <<"x", "=", "2", ";", "y", ";">>,
    <<"let", "=", "1", ";">>,
    <<"let", "z", "=", "3", ";", "z", "(", ")", ";">>,
    <<"fn", "f", "(", ")", "{", "x", "=", "3", ";", "{", "q", ";", "}", "}">>,
    <<"f", "(", ")", ";">>,
    <<"print", "x", ";">>,
    <<"x", ";">>
}

printError(out, err) == Append(out, [kind |-> "error", text |-> err])

\* A plausible slip: after an error the loop goes on with a new
\* interpreter.
replEvaluatedNew(rp, r) ==
    CASE r.err /= "" ->
           [repl |-> [rp EXCEPT !.out = printError(@, r.err)], interp |-> New]
      [] r.v /= GoNil ->
           [repl |-> [rp EXCEPT !.out =
                         Append(@, [kind |-> "value",
                                    text |-> Inspect(r.v, r.st.insts)])],
            interp |-> r.st]
      [] OTHER -> [repl |-> rp, interp |-> r.st]
replParsedNew(rp, interpreter, parsed) ==
    IF parsed.err /= ""
    THEN [repl |-> [rp EXCEPT !.out = printError(@, parsed.err)], interp |-> New]
    ELSE replEvaluatedNew(rp, Evaluate(parsed.program,
                                       [interpreter EXCEPT !.log = <<>>]))
replTurnNew(rp, interpreter, line) ==
    replParsedNew(rp, interpreter, Parse(NewParser(Tokens(line))))

\* The body of the loop for a line that is neither empty nor EXIT: what
\* follows interpreter.Evaluate, what follows parser.Parse, and the whole.
replEvaluated(rp, r) ==
    CASE r.err /= "" ->
           [repl |-> [rp EXCEPT !.out = printError(@, r.err)], interp |-> r.st]
      [] r.v /= GoNil ->
           [repl |-> [rp EXCEPT !.out =
                         Append(@, [kind |-> "value",
                                    text |-> Inspect(r.v, r.st.insts)])],
            interp |-> r.st]
      [] OTHER -> [repl |-> rp, interp |-> r.st]
replParsed(rp, interpreter, parsed) ==
    IF parsed.err /= ""
    THEN [repl |-> [rp EXCEPT !.out = printError(@, parsed.err)],
          interp |-> interpreter]
    ELSE replEvaluated(rp, Evaluate(parsed.program,
                                    [interpreter EXCEPT !.log = <<>>]))
replTurn(rp, interpreter, line) ==
    replParsed(rp, interpreter, Parse(NewParser(Tokens(line))))

Scanned(line) ==
    [repl EXCEPT !.prompts = @ + 1, !.lines = Append(@, line)]

ReplInit ==
    /\ interp = New
    /\ repl = [pc |-> "loop", prompts |-> 0, lines |-> <<>>, out |-> <<>>]
    /\ evLast = Idle
    /\ eHeap = Idle /\ eLast = Idle
    /\ vm = Idle /\ vmStatus = Idle /\ vmProg = Idle
    /\ lx = Idle /\ px = Idle

\* scanner.Scan() returns false: Start returns.
ReplEndOfInput ==
    /\ repl.pc = "loop"
    /\ repl' = [repl EXCEPT !.prompts = @ + 1, !.pc = "done"]
    /\ UNCHANGED <<lx, px, envVars, evalVars, vmVars>>

\* An empty line: continue.
ReplBlank ==
    /\ repl.pc = "loop" /\ Len(repl.lines) < MaxLines
    /\ repl' = Scanned(<<>>)
    /\ UNCHANGED <<lx, px, envVars, evalVars, vmVars>>

\* The line exit: Start returns.
ReplExit ==
    /\ repl.pc = "loop" /\ Len(repl.lines) < MaxLines
    /\ repl' = [Scanned(EXIT) EXCEPT !.pc = "done"]
    /\ UNCHANGED <<lx, px, envVars, evalVars, vmVars>>

\* Any other line: lexed, parsed and, when it parses, evaluated.
Turned(turn) == repl' = turn.repl /\ interp' = turn.interp
ReplLine ==
    /\ repl.pc = "loop" /\ Len(repl.lines) < MaxLines
    /\ \E line \in ReplLines :
          Turned(replTurn(Scanned(line), interp, line))
    /\ UNCHANGED <<lx, px, evLast, envVars, vmVars>>

ReplNext == ReplEndOfInput \/ ReplBlank \/ ReplExit \/ ReplLine

SpecRepl == ReplInit /\ [][ReplNext]_vars

\* The line the step has read, and whether the step printed an error.
LineRead == repl'.lines[Len(repl'.lines)]
ReadLine == Len(repl'.lines) = Len(repl.lines) + 1
Failure ==
    /\ Len(repl'.out) = Len(repl.out) + 1
    /\ repl'.out[Len(repl'.out)].kind = "error"

\* The first n of the statements, evaluated by the interpreter st, and the
\* number of them that complete.
Completed(stmts, n, st) ==
    Evaluate(Program(SubSeq(stmts, 1, n)), [st EXCEPT !.log = <<>>])
LastCompleted(stmts, st) ==
    CHOOSE n \in 0..Len(stmts) :
        /\ Completed(stmts, n, st).err = ""
        /\ n < Len(stmts) => Completed(stmts, n + 1, st).err /= ""

\* The names assigned by what the interpreter after did once the
\* interpreter before had completed its statements.
AssignedSince(before, after) ==
    {after.log[i][2] :
        i \in {j \in (Len(before.log) + 1)..Len(after.log) :
                  after.log[j][1] = "assign"}}

GlobalsOf(st) == st.envs[GlobalEnv].Values
Same(a, b) == a.t = b.t /\ a = b

\* The bindings of before are those of after, but for the names assigned.
Kept(before, after, assigned) ==
    \A k \in DOMAIN GlobalsOf(before) :
        /\ k \in DOMAIN GlobalsOf(after)
        /\ k \in assigned \/ Same(GlobalsOf(after)[k], GlobalsOf(before)[k])

-----------------------------------------------------------------------------
(* Claims about calls in the compiler and the VM (SpecVM).                  *)

\* The program that was compiled, the functions it declares at top level
\* and the calls of a declared function by its name at top level.
Compiled == VMPrograms[vmProg].Statements
Loaded == vmProg \in DOMAIN VMPrograms
Declared == {Compiled[i] : i \in {j \in DOMAIN Compiled : Compiled[j].k = "FunctionStmt"}}
IsCallByName(s) ==
    /\ s.k = "ExprStmt"
    /\ s.Expression.k = "CallExpr"
    /\ s.Expression.Callee.k = "VariableExpr"
    /\ \E f \in Declared : f.Name = s.Expression.Callee.Name
DeclaredCalls ==
    {Compiled[i].Expression : i \in {j \in DOMAIN Compiled : IsCallByName(Compiled[j])}}
ParametersOf(expr) ==
    Len((CHOOSE f \in Declared : f.Name = expr.Callee.Name).Params)

\* C24: in the compiler and VM pipeline a call with n arguments of a
\* function declared with m parameters executes the body exactly when
\* n = m and otherwise stops with the wrong-number-of-arguments error: a
\* program all of whose calls have n = m never stops with that error, and a
\* program whose calls have n /= m never enters a function body and never
\* halts without an error.
C24_CallArity ==
    (Loaded /\ vm /= Idle /\ DeclaredCalls /= {}) =>
        /\ (\A c \in DeclaredCalls : Len(c.Arguments) = ParametersOf(c)) =>
              ~(vmStatus = "error" /\ vm.msg = "wrong number of arguments")
        /\ (\A c \in DeclaredCalls : Len(c.Arguments) /= ParametersOf(c)) =>
              /\ vmStatus /= "halted"
              /\ vm.framesIndex = 1

\* The frames of m below its i-th, and the stack slots of m below index i.
FramesBelow(m, i) == [j \in 1..(i - 1) |-> m.frames[j]]
SlotsBelow(m, i) == [j \in 0..(i - 1) |-> SlotAt(m.stack, j)]

\* C25: the call and return discipline of the VM.  OpCall n with the callee
\* at stack index c = sp-1-n pushes one frame whose base pointer is c + 1;
\* while that frame is the current one the frames below it and its base
\* pointer do not change; and when it is left through OpReturnValue or
\* OpReturn, framesIndex is one less, sp = c + 1, stack[c] holds the
\* returned value (Nil for OpReturn) and the slots below c are untouched:
\* the callee and its n arguments are replaced by exactly one value.
C25_CallReturn ==
    [][(vmStatus = "running" /\ vmStatus' = "running") =>
          /\ Fetches({Op.OpCall}) =>
                LET n == ReadUint8(Ins, Ip + 1)
                    c == vm.sp - 1 - n
                IN /\ vm'.framesIndex = vm.framesIndex + 1
                   /\ currentFrame(vm').basePointer = c + 1
                   /\ currentFrame(vm').fn = SlotAt(vm.stack, c)
                   /\ FramesBelow(vm', vm.framesIndex) = FramesBelow(vm, vm.framesIndex)
                   /\ SlotsBelow(vm', c + 1 + n) = SlotsBelow(vm, c + 1 + n)
          /\ (Fetches({Op.OpReturnValue, Op.OpReturn}) /\ vm.framesIndex >= 2) =>
                LET c == currentFrame(vm).basePointer - 1
                    returned == IF Fetches({Op.OpReturn}) THEN NilV ELSE StackTop(vm)
                IN /\ vm'.framesIndex = vm.framesIndex - 1
                   /\ vm'.sp = c + 1
                   /\ SlotAt(vm'.stack, c) = returned
                   /\ FramesBelow(vm', vm.framesIndex) = FramesBelow(vm, vm.framesIndex)
                   /\ SlotsBelow(vm', c) = SlotsBelow(vm, c)
          /\ ~Fetches({Op.OpCall, Op.OpReturnValue, Op.OpReturn}) =>
                /\ vm'.framesIndex = vm.framesIndex
                /\ currentFrame(vm').basePointer = currentFrame(vm).basePointer
                /\ FramesBelow(vm', vm.framesIndex) = FramesBelow(vm, vm.framesIndex)
      ]_vars

\* outer(2) was called above the 5 on the stack (c = 1, n = 1), called
\* fn(2, 2) (n = 2) and both frames were left by OpReturnValue: the stack
\* holds the 5 and the 4 that was returned.
C25_Witness ==
    /\ vmProg = 0 - 3
    /\ vmStatus = "running"
    /\ vm.framesIndex = 1
    /\ vm.sp = 2
    /\ SlotAt(vm.stack, 0) = Number(5)
    /\ SlotAt(vm.stack, 1) = Number(4)

\* The program is one if statement: the operand stack is empty before its
\* condition is evaluated, and Run halts when its code was executed.
IsIfProgram == Len(Compiled) = 1 /\ Compiled[1].k = "IfStmt"
IfRan == Loaded /\ IsIfProgram /\ vmStatus = "halted"

\* C26: executing the code of a compiled if statement leaves the operand
\* stack exactly one value higher than before the condition was evaluated,
\* for both outcomes of the condition and whatever the branches contain:
\* nil when the condition is falsy and there is no else branch.
C26_IfPushesOne ==
    IfRan =>
        /\ vm.sp = 1
        /\ vmProg = 32 => SlotAt(vm.stack, 0) = NilV

\* The program declares one function, whose body is return; and calls it.
IsBareReturn(f) ==
    /\ Len(f.Body) = 1
    /\ f.Body[1].k = "ReturnStmt"
    /\ f.Body[1].Value = NoNode
CallsBareReturn ==
    /\ Loaded /\ vm /= Idle
    /\ Cardinality(Declared) = 1 /\ DeclaredCalls /= {}
    /\ \A f \in Declared : IsBareReturn(f)
FunctionConstants ==
    {vm.constants[i] : i \in {j \in DOMAIN vm.constants :
                                 vm.constants[j].t = "CompiledFunction"}}

\* C27: the compiler translates return; to OpNil followed by OpReturnValue,
\* and in the VM a call of a function that executes return; yields nil.
C27_BareReturnNil ==
    CallsBareReturn =>
        /\ \A fn \in FunctionConstants :
              fn.Instructions = Make(Op.OpNil, <<>>) \o Make(Op.OpReturnValue, <<>>)
        /\ vmStatus = "halted" => LastPoppedStackElem(vm) = NilV

-----------------------------------------------------------------------------
(* Claims about the completeness of the AST (SpecParse).                    *)

\* Sound(n): below the node n every operand of a unary, binary, logical,
\* grouping, assignment and call node and the expression of every print
\* and expression statement is present; Operand(n): n is present and sound.
RECURSIVE Sound(_)
Operand(n) == n.k /= "nil" /\ Sound(n)
Sound(n) ==
    CASE n.k \in {"nil", "Literal", "VariableExpr", "ThisExpr", "SuperExpr"} -> TRUE
      [] n.k = "UnaryExpr" -> Operand(n.Right)
      [] n.k \in {"BinaryExpr", "LogicalExpr"} -> Operand(n.Left) /\ Operand(n.Right)
      [] n.k \in {"GroupingExpr", "ExprStmt", "PrintStmt"} -> Operand(n.Expression)
      [] n.k = "AssignExpr" -> Operand(n.Value)
      [] n.k = "CallExpr" ->
           /\ Operand(n.Callee)
           /\ \A i \in DOMAIN n.Arguments : Operand(n.Arguments[i])
      [] n.k = "GetExpr" -> Operand(n.Obj)
      [] n.k = "SetExpr" -> Operand(n.Obj) /\ Operand(n.Value)
      [] n.k = "VariableStmt" -> Sound(n.Initializer)
      [] n.k = "ReturnStmt" -> Sound(n.Value)
      [] n.k \in {"BlockStmt", "Program"} ->
           \A i \in DOMAIN n.Statements : Sound(n.Statements[i])
      [] n.k = "IfStmt" ->
           Sound(n.Condition) /\ Sound(n.ThenBranch) /\ Sound(n.ElseBranch)
      [] n.k = "WhileStmt" -> Sound(n.Condition) /\ Sound(n.Body)
      [] n.k = "FunctionStmt" -> \A i \in DOMAIN n.Body : Sound(n.Body[i])
      [] n.k = "ClassStmt" -> \A i \in DOMAIN n.Methods : Sound(n.Methods[i])
      [] OTHER -> TRUE

\* A token after which an operand is required stands before a semicolon.
NeedOperand == {"+", "-", "*", "=", "or", "print"}
OperandMissing(text) ==
    \E i \in 1..(Len(text) - 1) : text[i] \in NeedOperand /\ text[i + 1] = ";"

\* C28: every AST a successful Parse returns is complete (each operand of a
\* unary, binary, logical, grouping, assignment and call node and the
\* expression of each print statement, expression statement and let
\* initializer after = is a present node), and a text in which a token
\* that begins no primary expression stands where an operand is required
\* (1 + ; or print ; or let a = ;) gives a ParseError, not an AST.
C28_CompleteAST ==
    (px.pc = "returned" /\ px.err = "") =>
        /\ Sound(px.program)
        /\ ~OperandMissing(px.text)

-----------------------------------------------------------------------------
(* Claims about the characters the lexer consumes (SpecLex).                *)

\* The characters of the source a token stands for, and the characters
\* NextToken consumed for the k-th token after the whitespace before it.
TokenText(tok) ==
    IF tok.Type = "String" THEN "\"" \o tok.Literal \o "\"" ELSE tok.Literal
Consumed(k) == Slice(lx.l.src, lx.spans[k].from, lx.spans[k].next - 1)
ConsumesItsToken(k) ==
    CASE lx.tokens[k].Type /= "Illegal" -> Consumed(k) = TokenText(lx.tokens[k])
      [] lx.tokens[k].Literal = "unterminated string" ->
           lx.spans[k].next = Len(lx.l.src) + 1
      [] OTHER -> lx.spans[k].next = lx.spans[k].from + 1

\* C29: the lexer loses no input character: NextToken consumes exactly the
\* characters of the token it returns and the whitespace before it, also
\* for a string literal and for the empty string literal, so that the next
\* token starts at the first character that is not whitespace after it.
C29_NoCharacterLost ==
    lx /= Idle => \A k \in 1..Len(lx.tokens) : ConsumesItsToken(k)

\* The same but for the empty string literal, which is what the lexer does.
C29_ButEmptyString ==
    lx /= Idle =>
        \A k \in 1..Len(lx.tokens) :
            lx.tokens[k] /= makeToken("String", "") => ConsumesItsToken(k)

-----------------------------------------------------------------------------
(* Claims about the instructions the VM decodes (SpecVM).                   *)

\* The offsets at which the instructions of ins begin, each instruction
\* being its opcode byte and the operand bytes of OperandWidths.
RECURSIVE StartsFrom(_, _)
StartsFrom(ins, at) ==
    IF at >= Len(ins) THEN {}
    ELSE {at} \cup StartsFrom(ins,
                      at + 1 + (IF OperandWidths(ByteAt(ins, at)) = <<>> THEN 0
                                ELSE OperandWidths(ByteAt(ins, at))[1]))
InstructionStarts(ins) == StartsFrom(ins, 0)

\* The instruction sequences of the loaded bytecode: one per scope.
Scopes ==
    {SlotAt(vm.frames, 0).fn.Instructions}
        \cup {f.Instructions : f \in FunctionConstants}
JumpsOf(ins) ==
    {at \in InstructionStarts(ins) :
        ByteAt(ins, at) \in {Op.OpJump, Op.OpJumpNotTruthy}}
JumpsLand(ins) ==
    \A at \in JumpsOf(ins) :
        ReadUint16(ins, at + 1) \in InstructionStarts(ins) \cup {Len(ins)}

\* C30: when the VM runs an instruction sequence the compiler produced,
\* every byte it decodes as an opcode is the first byte of an instruction
\* the compiler emitted, and the operand of every OpJump and
\* OpJumpNotTruthy is the offset of an instruction of its scope or the
\* length of the scope's instructions, also after trailing OpPop
\* instructions have been removed.
C30_DecodesInstructions ==
    (vm /= Idle /\ Loaded) =>
        /\ AtFetch => Ip \in InstructionStarts(Ins)
        /\ \A ins \in Scopes : JumpsLand(ins)

=============================================================================
